---- MODULE Spec2Model ----
(***************************************************************************)
(* Deolang: the grid (GridMap), the direction tables and the interpreter   *)
(* (Interpreter) of src/deolangc.py and src/deolang/gridmap.py, as a state *)
(* machine driven by a host that calls load_code, run, reset, set_input.   *)
(*                                                                         *)
(* Representation.  A character is represented by its Unicode code point   *)
(* (an integer 0..0x10FFFF); the Python empty string '' that get_item      *)
(* returns for a padded or outside cell is EMPTY, which is no code point.  *)
(* A Python str is a sequence of code points.  ord and chr keep their      *)
(* partiality: ord('') and chr(out of range) raise.                        *)
(***************************************************************************)
EXTENDS Integers, Sequences, FiniteSets, TLC

\* ------------------------------------------------------------------ bounds
\* Largest magnitude of an integer held on a stack or in the heap.
MaxVal == 130
\* Largest depth of the main stack / the auxiliary stack.
MaxStack == 7
\* Largest depth of the call stack.
MaxCalls == 2
\* The IP is followed while |x|, |y| <= MaxCoord.
MaxCoord == 14
\* Largest number of rows / columns the grid may grow to.
MaxDim == 15
\* Largest number of output fragments kept.
MaxOut == 3
\* Largest number of heap entries.
MaxHeap == 2
\* Largest steps argument the host passes to run.
MaxSteps == 2
\* The count of executions of I is followed up to MaxICount.
MaxICount == 4
\* Longest string pushed in the string round trip.
MaxLen == 3
\* Longest generated program.
GenLen == 3

\* ------------------------------------------------------- characters, str
\* The value get_item returns for a cell that holds nothing: Python ''.
EMPTY == -1

\* ord(c) for the characters the programs below are written in.
C(c) ==
    CASE c = " " -> 32 [] c = "\"" -> 34 [] c = "%" -> 37 [] c = "&" -> 38
      [] c = "(" -> 40 [] c = ")" -> 41 [] c = "*" -> 42 [] c = "+" -> 43
      [] c = "-" -> 45 [] c = "/" -> 47
      [] c = "0" -> 48 [] c = "1" -> 49 [] c = "2" -> 50 [] c = "3" -> 51
      [] c = "4" -> 52 [] c = "5" -> 53 [] c = "6" -> 54 [] c = "7" -> 55
      [] c = "8" -> 56 [] c = "9" -> 57
      [] c = ":" -> 58 [] c = "<" -> 60 [] c = "=" -> 61 [] c = ">" -> 62
      [] c = "?" -> 63 [] c = "@" -> 64 [] c = "A" -> 65 [] c = "C" -> 67
      [] c = "D" -> 68 [] c = "F" -> 70 [] c = "H" -> 72 [] c = "I" -> 73
      [] c = "L" -> 76 [] c = "M" -> 77 [] c = "N" -> 78 [] c = "P" -> 80
      [] c = "R" -> 82 [] c = "S" -> 83 [] c = "T" -> 84 [] c = "U" -> 85
      [] c = "V" -> 86 [] c = "W" -> 87 [] c = "Z" -> 90 [] c = "\\" -> 92
      [] c = "^" -> 94 [] c = "_" -> 95 [] c = "a" -> 97 [] c = "b" -> 98
      [] c = "g" -> 103 [] c = "h" -> 104 [] c = "j" -> 106 [] c = "o" -> 111
      [] c = "p" -> 112 [] c = "x" -> 120 [] c = "{" -> 123 [] c = "|" -> 124
      [] c = "}" -> 125 [] c = "~" -> 126 [] c = "\n" -> 10

\* A Python str from a tuple of one-character strings.
Str(t) == [i \in 1..Len(t) |-> C(t[i])]

\* Largest code point chr accepts (sys.maxunicode).
MaxUnicode == 1114111

\* chr(v) raises ValueError outside range(0x110000).
chr_ok(v) == 0 <= v /\ v <= MaxUnicode

\* chr(v), where it is defined: the character with code point v.
chr(v) == v

\* ord(c) raises TypeError on a string that is not of length 1 (here: '').
ord_ok(c) == c # EMPTY

\* ord(c), where it is defined.
ord(c) == c

\* str.isdigit(): the ASCII digits and, in Latin-1, the superscripts
\* 178, 179, 185 (digits of other scripts lie above the values followed).
isdigit(c) == c \in 48..57 \/ c \in {178, 179, 185}

\* int(c) accepts decimal digits only: it raises ValueError on a superscript.
int_ok(c) == c \in 48..57

\* int(c) for a decimal digit.
int(c) == c - 48

\* Python None where a str is optional (file, content, input).
None == <<EMPTY>>

\* bool(s) of an optional str: None and the empty string are falsy.
Truthy(s) == s # None /\ s # <<>>

RECURSIVE digits(_)
\* The decimal digits of n >= 0, most significant first.
digits(n) == IF n < 10 THEN <<48 + n>> ELSE Append(digits(n \div 10), 48 + (n % 10))

\* str(n): the decimal representation, with a leading '-' when negative.
str(n) == IF n < 0 THEN <<45>> \o digits(-n) ELSE digits(n)

\* ------------------------------------------------------ Python arithmetic
\* a // b that rounds toward zero.
floordiv_truncating(a, b) ==
    IF b > 0 THEN (IF a >= 0 THEN a \div b ELSE -((-a) \div b))
    ELSE (IF a >= 0 THEN -(a \div (-b)) ELSE (-a) \div (-b))

\* a // b for b # 0: floor division.
floordiv(a, b) == IF b > 0 THEN a \div b ELSE (-a) \div (-b)

\* a % b for b # 0: the remainder of floor division (it has the sign of b).
pymod(a, b) == a - b * floordiv(a, b)

RECURSIVE bit_and(_, _)
\* a & b on two's-complement integers of unbounded width.
bit_and(a, b) ==
    IF a = 0 \/ b = 0 THEN 0
    ELSE IF a = -1 THEN b
    ELSE IF b = -1 THEN a
    ELSE (a % 2) * (b % 2) + 2 * bit_and(a \div 2, b \div 2)

\* ~a.
bit_not(a) == -a - 1

\* a | b, by De Morgan on the definitions above.
bit_or(a, b) == bit_not(bit_and(bit_not(a), bit_not(b)))

\* a ^ b.
bit_xor(a, b) == bit_and(bit_or(a, b), bit_not(bit_and(a, b)))

\* list[i] = v: the 1-based position a Python index i denotes in a list of
\* length n (negative indices count from the end), or 0 for IndexError.
PyIndex(n, i) ==
    IF 0 <= i /\ i < n THEN i + 1
    ELSE IF i < 0 /\ -n <= i THEN n + i + 1
    ELSE 0

\* ---------------------------------------------------------------- tables
DIRECTIONS(c) ==
    CASE c = "^" -> <<0, -1>>
      [] c = ">" -> <<1, 0>>
      [] c = "<" -> <<-1, 0>>
      [] c = "V" -> <<0, 1>>

\* list(DIRECTIONS.values())
DirectionValues == {DIRECTIONS("^"), DIRECTIONS(">"), DIRECTIONS("<"), DIRECTIONS("V")}

\* TURN_RIGHT with a slip in the entry of east: (1, 1) for (0, 1).
TURN_RIGHT_slip(d) ==
    CASE d = <<0, -1>> -> <<1, 0>>
      [] d = <<1, 0>> -> <<1, 1>>
      [] d = <<-1, 0>> -> <<0, -1>>
      [] d = <<0, 1>> -> <<-1, 0>>

TURN_RIGHT(d) ==
    CASE d = <<0, -1>> -> <<1, 0>>
      [] d = <<1, 0>> -> <<0, 1>>
      [] d = <<-1, 0>> -> <<0, -1>>
      [] d = <<0, 1>> -> <<-1, 0>>

TURN_LEFT(d) ==
    CASE d = <<0, -1>> -> <<-1, 0>>
      [] d = <<1, 0>> -> <<0, -1>>
      [] d = <<-1, 0>> -> <<0, 1>>
      [] d = <<0, 1>> -> <<1, 0>>

\* --------------------------------------------------------------- GridMap
\* The characters str.splitlines() breaks a text at.
LineBreaks == {10, 11, 12, 13, 28, 29, 30, 133, 8232, 8233}

\* The characters a text-mode file read ends a line at (universal newlines).
FileLineBreaks == {10, 13}

RECURSIVE SplitAt(_, _, _, _, _)
\* The lines of text[i..], cur being the line under construction: a line
\* ends at a character of brk (\r\n counting as one break); a text that
\* ends with a break has no empty last line.
SplitAt(text, brk, i, cur, acc) ==
    IF i > Len(text) THEN (IF cur = <<>> THEN acc ELSE Append(acc, cur))
    ELSE IF text[i] \in brk
         THEN IF text[i] = 13 /\ i < Len(text) /\ text[i + 1] = 10
              THEN SplitAt(text, brk, i + 2, <<>>, Append(acc, cur))
              ELSE SplitAt(text, brk, i + 1, <<>>, Append(acc, cur))
         ELSE SplitAt(text, brk, i + 1, Append(cur, text[i]), acc)

\* content.splitlines()
splitlines(content) == SplitAt(content, LineBreaks, 1, <<>>, <<>>)

\* The files the host's directory holds: name |-> text.  "a" is a 2 x 2
\* overlay ("x@" over "b") whose cell (1, 1) is padded, "b" is an empty file.
FileSystem ==
    (<<97>> :> <<120, 64, 10, 98>>) @@ (<<98>> :> <<>>)

\* map_file.readlines(), each line with its '\n' stripped (line 13).
readlines(file) == SplitAt(FileSystem[file], FileLineBreaks, 1, <<>>, <<>>)

\* max(len(row) for row in raw_grid) if raw_grid else 0
MaxRowLen(raw_grid) ==
    IF raw_grid = <<>> THEN 0
    ELSE CHOOSE n \in {Len(raw_grid[r]) : r \in 1..Len(raw_grid)} :
             \A r \in 1..Len(raw_grid) : Len(raw_grid[r]) <= n

\* GridMap.__init__: [ok |-> FALSE] is "raise ValueError"; otherwise g is
\* the grid: rows padded with '' to the longest line.
GridMap_init(file, content) ==
    IF ~Truthy(content) /\ ~(Truthy(file) /\ file \in DOMAIN FileSystem)
    THEN [ok |-> FALSE, g |-> [map |-> <<>>, rows |-> 0, cols |-> 0]]
    ELSE LET raw_grid == IF Truthy(content) THEN splitlines(content) ELSE readlines(file)
             rows == Len(raw_grid)
             cols == MaxRowLen(raw_grid)
         IN [ok |-> TRUE,
             g |-> [map |-> [r \in 1..rows |->
                               [c \in 1..cols |->
                                  IF c <= Len(raw_grid[r]) THEN raw_grid[r][c] ELSE EMPTY]],
                    rows |-> rows,
                    cols |-> cols]]

\* GridMap.get_map: a copy of the rows.
get_map(g) == g.map

\* get_item without its tests 0 <= y and 0 <= x: a negative coordinate
\* counts from the end of the list.
get_item_wrapping(g, x, y) ==
    LET iy == PyIndex(Len(g.map), y)
        ix == IF iy = 0 THEN 0 ELSE PyIndex(Len(g.map[iy]), x)
    IN IF iy = 0 \/ ix = 0 THEN EMPTY ELSE g.map[iy][ix]

\* GridMap.get_item
get_item(g, x, y) ==
    IF 0 <= y /\ y < Len(g.map) /\ 0 <= x /\ x < Len(g.map[y + 1])
    THEN g.map[y + 1][x + 1]
    ELSE EMPTY

\* [''] * n
Blank(n) == [i \in 1..(IF n > 0 THEN n ELSE 0) |-> EMPTY]

\* _ensure_size that makes the grid exactly w x h, cutting what lies beyond.
ensure_size_exact(g, w, h) ==
    IF w <= 0 \/ h <= 0 THEN g
    ELSE [map |-> [r \in 1..h |->
                     [c \in 1..w |->
                        IF r <= Len(g.map) /\ c <= Len(g.map[r]) THEN g.map[r][c] ELSE EMPTY]],
          rows |-> h,
          cols |-> w]

\* GridMap._ensure_size
ensure_size(g, w, h) ==
    LET current_h == Len(g.map)
        current_w == IF current_h > 0 THEN Len(g.map[1]) ELSE 0
        taller == IF h > current_h
                  THEN g.map \o [r \in 1..(h - current_h) |-> Blank(current_w)]
                  ELSE g.map
        wider == IF w > current_w
                 THEN [r \in 1..Len(taller) |-> taller[r] \o Blank(w - Len(taller[r]))]
                 ELSE taller
    IN [map |-> wider,
        rows |-> Len(wider),
        cols |-> IF Len(wider) > 0 THEN Len(wider[1]) ELSE 0]

\* set_item that stores at (y, x).
set_item_swapped(g, x, y, char) ==
    IF x < 0 \/ y < 0 THEN g
    ELSE LET e == ensure_size(g, y + 1, x + 1)
         IN [e EXCEPT !.map[x + 1][y + 1] = char]

\* set_item that starts the row it writes to afresh.
set_item_fresh_row(g, x, y, char) ==
    IF x < 0 \/ y < 0 THEN g
    ELSE LET e == ensure_size(g, x + 1, y + 1)
         IN [e EXCEPT !.map[y + 1] = [c \in 1..Len(e.map[y + 1]) |->
                                        IF c = x + 1 THEN char ELSE EMPTY]]

\* GridMap.set_item
set_item(g, x, y, char) ==
    IF x < 0 \/ y < 0 THEN g
    ELSE LET e == ensure_size(g, x + 1, y + 1)
         IN [e EXCEPT !.map[y + 1][x + 1] = char]

RECURSIVE MergeCells(_, _, _, _, _, _)
\* The two loops of merge_grid from overlay cell number k on (row-major,
\* k = r * w + c): self._map[r + y_offset][c + x_offset] = val for every
\* val # ''.  Python list indexing: a negative index counts from the end and
\* an index outside the list raises IndexError, which ends the loops with
\* the cells written so far kept.
MergeCells(g, other_map, w, x_offset, y_offset, k) ==
    IF k >= Len(other_map) * w THEN [ok |-> TRUE, g |-> g]
    ELSE LET r == k \div w
             c == k % w
             val == other_map[r + 1][c + 1]
             iy == PyIndex(Len(g.map), r + y_offset)
             ix == IF iy = 0 THEN 0 ELSE PyIndex(Len(g.map[iy]), c + x_offset)
         IN IF val = EMPTY THEN MergeCells(g, other_map, w, x_offset, y_offset, k + 1)
            ELSE IF iy = 0 \/ ix = 0 THEN [ok |-> FALSE, g |-> g]
            ELSE MergeCells([g EXCEPT !.map[iy][ix] = val],
                            other_map, w, x_offset, y_offset, k + 1)

\* GridMap.merge_grid: ok is the boolean it returns, g the grid afterwards.
merge_grid(g, other_grid_file, x_offset, y_offset) ==
    LET other == GridMap_init(other_grid_file, None)
    IN IF ~other.ok THEN [ok |-> FALSE, g |-> g]
       ELSE LET other_map == get_map(other.g)
                h == Len(other_map)
                w == IF h > 0 THEN Len(other_map[1]) ELSE 0
            IN MergeCells(ensure_size(g, x_offset + w, y_offset + h),
                          other_map, w, x_offset, y_offset, 0)

\* GridMap.__len__, the truth value of a grid ("if self.program").
grid_len(g) == g.rows * g.cols

\* ----------------------------------------------------------- Interpreter
\* An opcode handler yields the interpreter afterwards (st) and what it
\* returned (res): "None", "False" (op_exit), "JUMPED", or "raise" when it
\* raised an exception (st then holds what it had changed before raising).
Ret(s, r) == [st |-> s, res |-> r]

\* self.stack.pop() twice: the list that is left.
Pop2(stack) == SubSeq(stack, 1, Len(stack) - 2)

\* self.stack.pop(): the list that is left.
Pop1(stack) == SubSeq(stack, 1, Len(stack) - 1)

\* stack[-1]
Top(stack) == stack[Len(stack)]

\* stack[-2]
Second(stack) == stack[Len(stack) - 1]

\* Interpreter.move
move(s) == [s EXCEPT !.x = s.x + s.direction[1], !.y = s.y + s.direction[2]]

op_up(s) == Ret([s EXCEPT !.direction = DIRECTIONS("^")], "None")

op_right(s) == Ret([s EXCEPT !.direction = DIRECTIONS(">")], "None")

op_left(s) == Ret([s EXCEPT !.direction = DIRECTIONS("<")], "None")

op_down(s) == Ret([s EXCEPT !.direction = DIRECTIONS("V")], "None")

\* random.choice(list(DIRECTIONS.values())): choice is the value drawn.
op_random_dir(s, choice) == Ret([s EXCEPT !.direction = choice], "None")

op_add(s) ==
    IF Len(s.stack) < 2 THEN Ret(s, "None")
    ELSE Ret([s EXCEPT !.stack = Append(Pop2(s.stack), Top(s.stack) + Second(s.stack))], "None")

op_sub(s) ==
    IF Len(s.stack) < 2 THEN Ret(s, "None")
    ELSE LET b == Top(s.stack)
             a == Second(s.stack)
         IN Ret([s EXCEPT !.stack = Append(Pop2(s.stack), a - b)], "None")

op_mul(s) ==
    IF Len(s.stack) < 2 THEN Ret(s, "None")
    ELSE Ret([s EXCEPT !.stack = Append(Pop2(s.stack), Top(s.stack) * Second(s.stack))], "None")

op_div(s) ==
    IF Len(s.stack) < 2 THEN Ret(s, "None")
    ELSE LET b == Top(s.stack)
             a == Second(s.stack)
         IN Ret([s EXCEPT !.stack = Append(Pop2(s.stack),
                                           IF b = 0 THEN 0 ELSE floordiv(a, b))], "None")

op_mod(s) ==
    IF Len(s.stack) < 2 THEN Ret(s, "None")
    ELSE LET b == Top(s.stack)
             a == Second(s.stack)
         IN Ret([s EXCEPT !.stack = Append(Pop2(s.stack),
                                           IF b = 0 THEN 0 ELSE pymod(a, b))], "None")

op_and(s) ==
    IF Len(s.stack) < 2 THEN Ret(s, "None")
    ELSE Ret([s EXCEPT !.stack = Append(Pop2(s.stack),
                                        bit_and(Top(s.stack), Second(s.stack)))], "None")

op_or(s) ==
    IF Len(s.stack) < 2 THEN Ret(s, "None")
    ELSE Ret([s EXCEPT !.stack = Append(Pop2(s.stack),
                                        bit_or(Top(s.stack), Second(s.stack)))], "None")

op_xor(s) ==
    IF Len(s.stack) < 2 THEN Ret(s, "None")
    ELSE Ret([s EXCEPT !.stack = Append(Pop2(s.stack),
                                        bit_xor(Top(s.stack), Second(s.stack)))], "None")

op_not(s) ==
    IF s.stack = <<>> THEN Ret(s, "None")
    ELSE Ret([s EXCEPT !.stack = Append(Pop1(s.stack), bit_not(Top(s.stack)))], "None")

op_eq(s) ==
    IF Len(s.stack) < 2 THEN Ret(s, "None")
    ELSE Ret([s EXCEPT !.stack = Append(Pop2(s.stack),
                                        IF Top(s.stack) = Second(s.stack) THEN 1 ELSE 0)],
             "None")

op_less(s) ==
    IF Len(s.stack) < 2 THEN Ret(s, "None")
    ELSE LET b == Top(s.stack)
             a == Second(s.stack)
         IN Ret([s EXCEPT !.stack = Append(Pop2(s.stack), IF a < b THEN 1 ELSE 0)], "None")

op_greater(s) ==
    IF Len(s.stack) < 2 THEN Ret(s, "None")
    ELSE LET b == Top(s.stack)
             a == Second(s.stack)
         IN Ret([s EXCEPT !.stack = Append(Pop2(s.stack), IF a > b THEN 1 ELSE 0)], "None")

op_pop(s) ==
    IF s.stack # <<>> THEN Ret([s EXCEPT !.stack = Pop1(s.stack)], "None")
    ELSE Ret(s, "None")

\* op_swap without its guard on len(self.stack): pop() empties the stack
\* and raises IndexError.
op_swap_unguarded(s) ==
    IF Len(s.stack) < 2 THEN Ret([s EXCEPT !.stack = <<>>], "raise")
    ELSE Ret([s EXCEPT !.stack = Append(Append(Pop2(s.stack), Top(s.stack)),
                                        Second(s.stack))], "None")

op_swap(s) ==
    IF Len(s.stack) < 2 THEN Ret(s, "None")
    ELSE LET b == Top(s.stack)
             a == Second(s.stack)
         IN Ret([s EXCEPT !.stack = Pop2(s.stack) \o <<b, a>>], "None")

op_copy(s) ==
    IF s.stack # <<>> THEN Ret([s EXCEPT !.stack = Append(s.stack, Top(s.stack))], "None")
    ELSE Ret(s, "None")

op_move_to_aux(s) ==
    IF s.stack # <<>>
    THEN Ret([s EXCEPT !.addition_stack = Append(s.addition_stack, Top(s.stack)),
                       !.stack = Pop1(s.stack)], "None")
    ELSE Ret(s, "None")

op_move_from_aux(s) ==
    IF s.addition_stack # <<>>
    THEN Ret([s EXCEPT !.stack = Append(s.stack, Top(s.addition_stack)),
                       !.addition_stack = Pop1(s.addition_stack)], "None")
    ELSE Ret(s, "None")

\* self.stack.insert(0, self.stack.pop())
op_rotate_left(s) ==
    IF Len(s.stack) > 1
    THEN Ret([s EXCEPT !.stack = <<Top(s.stack)>> \o Pop1(s.stack)], "None")
    ELSE Ret(s, "None")

\* self.stack.append(self.stack.pop(0))
op_rotate_right(s) ==
    IF Len(s.stack) > 1
    THEN Ret([s EXCEPT !.stack = Append(Tail(s.stack), Head(s.stack))], "None")
    ELSE Ret(s, "None")

op_len(s) == Ret([s EXCEPT !.stack = Append(s.stack, Len(s.stack))], "None")

op_clear(s) == Ret([s EXCEPT !.stack = <<>>], "None")

\* The write to sys.stdout is the host's terminal echo; output is the copy
\* the snapshot reads.
op_print_num(s) ==
    IF s.stack # <<>>
    THEN Ret([s EXCEPT !.stack = Pop1(s.stack),
                       !.output = Append(s.output, str(Top(s.stack)))], "None")
    ELSE Ret(s, "None")

\* chr(self.stack.pop()): the value is popped before chr may raise.
op_print_char(s) ==
    IF s.stack # <<>>
    THEN IF chr_ok(Top(s.stack))
         THEN Ret([s EXCEPT !.stack = Pop1(s.stack),
                            !.output = Append(s.output, <<chr(Top(s.stack))>>)], "None")
         ELSE Ret([s EXCEPT !.stack = Pop1(s.stack)], "raise")
    ELSE Ret(s, "None")

\* What a call of self.built_in_input() may give when it is the host's
\* callback: a str, an int, another object, or an exception.
CallbackResults ==
    { [kind |-> "str", text |-> <<>>, num |-> 0],
      [kind |-> "str", text |-> <<97, 98>>, num |-> 0],
      [kind |-> "int", text |-> <<>>, num |-> 7],
      [kind |-> "other", text |-> <<>>, num |-> 0],
      [kind |-> "raise", text |-> <<>>, num |-> 0] }

\* op_input that reads the pre-supplied input without advancing the pointer.
op_input_stuck(s, val) ==
    IF ~Truthy(s.input) THEN Ret(s, "None")
    ELSE IF s.input_pointer < Len(s.input)
         THEN Ret([s EXCEPT !.stack = Append(s.stack, ord(s.input[s.input_pointer + 1]))],
                  "None")
         ELSE Ret([s EXCEPT !.stack = Append(s.stack, -1)], "None")

\* op_input; val is what the host callback returns if it is called.
\* built_in_input is "callback" (the callable given at construction),
\* "None", or the bool set_input stores: calling True raises TypeError.
op_input(s, val) ==
    IF ~Truthy(s.input)
    THEN IF s.built_in_input \in {"callback", "True"}
         THEN IF s.built_in_input = "True" THEN Ret(s, "raise")
              ELSE LET c == [s EXCEPT !.cb_called = TRUE]
                   IN IF val.kind = "raise" THEN Ret(c, "raise")
                      ELSE IF val.kind = "str" /\ val.text # <<>>
                           THEN Ret([c EXCEPT !.stack = Append(s.stack, ord(val.text[1]))],
                                    "None")
                      ELSE IF val.kind = "int"
                           THEN Ret([c EXCEPT !.stack = Append(s.stack, val.num)], "None")
                      ELSE Ret(c, "None")
         ELSE Ret(s, "None")
    ELSE IF s.input_pointer < Len(s.input)
         THEN IF s.input_pointer < 0 /\ PyIndex(Len(s.input), s.input_pointer) = 0
              THEN Ret(s, "raise")
              ELSE Ret([s EXCEPT
                          !.stack = Append(s.stack,
                                           ord(s.input[PyIndex(Len(s.input), s.input_pointer)])),
                          !.input_pointer = s.input_pointer + 1], "None")
         ELSE Ret([s EXCEPT !.stack = Append(s.stack, -1)], "None")

\* op_heap_store that takes the address for the value: heap[val] = addr.
op_heap_store_swapped(s) ==
    IF Len(s.stack) < 2 THEN Ret(s, "None")
    ELSE LET addr == Second(s.stack)
             val == Top(s.stack)
         IN Ret([s EXCEPT !.stack = Pop2(s.stack),
                          !.heap = [a \in DOMAIN s.heap \cup {addr} |->
                                      IF a = addr THEN val ELSE s.heap[a]]], "None")

op_heap_store(s) ==
    IF Len(s.stack) < 2 THEN Ret(s, "None")
    ELSE LET addr == Top(s.stack)
             val == Second(s.stack)
         IN Ret([s EXCEPT !.stack = Pop2(s.stack),
                          !.heap = [a \in DOMAIN s.heap \cup {addr} |->
                                      IF a = addr THEN val ELSE s.heap[a]]], "None")

\* op_heap_load with self.heap.setdefault(addr, 0) for self.heap.get(addr, 0).
op_heap_load_setdefault(s) ==
    IF s.stack = <<>> THEN Ret(s, "None")
    ELSE LET addr == Top(s.stack)
         IN Ret([s EXCEPT !.stack = Append(Pop1(s.stack),
                                           IF addr \in DOMAIN s.heap THEN s.heap[addr] ELSE 0),
                          !.heap = [a \in DOMAIN s.heap \cup {addr} |->
                                      IF a \in DOMAIN s.heap THEN s.heap[a] ELSE 0]],
                "None")

\* self.heap.get(addr, 0)
op_heap_load(s) ==
    IF s.stack = <<>> THEN Ret(s, "None")
    ELSE LET addr == Top(s.stack)
         IN Ret([s EXCEPT !.stack = Append(Pop1(s.stack),
                                           IF addr \in DOMAIN s.heap THEN s.heap[addr] ELSE 0)],
                "None")

op_grid_get(s) ==
    IF Len(s.stack) < 2 THEN Ret(s, "None")
    ELSE LET y == Top(s.stack)
             x == Second(s.stack)
             val == get_item(s.program, x, y)
         IN Ret([s EXCEPT !.stack = Append(Pop2(s.stack),
                                           IF val # EMPTY THEN ord(val) ELSE 0)], "None")

op_grid_put(s) ==
    IF Len(s.stack) < 3 THEN Ret(s, "None")
    ELSE LET y == Top(s.stack)
             x == Second(s.stack)
             val == s.stack[Len(s.stack) - 2]
             popped == [s EXCEPT !.stack = SubSeq(s.stack, 1, Len(s.stack) - 3)]
         IN IF ~chr_ok(val) THEN Ret(popped, "raise")
            ELSE Ret([popped EXCEPT !.program = set_item(s.program, x, y, chr(val))], "None")

op_jump(s) ==
    IF Len(s.stack) < 2 THEN Ret(s, "None")
    ELSE Ret([s EXCEPT !.y = Top(s.stack), !.x = Second(s.stack),
                       !.stack = Pop2(s.stack)], "JUMPED")

\* op_func_call that pushes the position of the F itself.
op_func_call_here(s) ==
    IF Len(s.stack) < 2 THEN Ret(s, "None")
    ELSE LET y == Top(s.stack)
             x == Second(s.stack)
         IN Ret([s EXCEPT !.stack = Pop2(s.stack),
                          !.call_stack = Append(s.call_stack, <<s.x, s.y>>),
                          !.x = x, !.y = y], "JUMPED")

op_func_call(s) ==
    IF Len(s.stack) < 2 THEN Ret(s, "None")
    ELSE LET y == Top(s.stack)
             x == Second(s.stack)
         IN Ret([s EXCEPT !.stack = Pop2(s.stack),
                          !.call_stack = Append(s.call_stack,
                                                <<s.x + s.direction[1], s.y + s.direction[2]>>),
                          !.x = x, !.y = y], "JUMPED")

\* op_return that reports a jump although the call stack is empty.
op_return_stays(s) ==
    IF s.call_stack # <<>>
    THEN Ret([s EXCEPT !.x = Top(s.call_stack)[1], !.y = Top(s.call_stack)[2],
                       !.call_stack = Pop1(s.call_stack)], "JUMPED")
    ELSE Ret(s, "JUMPED")

op_return(s) ==
    IF s.call_stack # <<>>
    THEN Ret([s EXCEPT !.x = Top(s.call_stack)[1], !.y = Top(s.call_stack)[2],
                       !.call_stack = Pop1(s.call_stack)], "JUMPED")
    ELSE Ret(s, "None")

RECURSIVE PopChars(_, _)
\* The loop of _pop_string: ok is FALSE when chr raised (the offending
\* value is popped already), stack is what is left, chars the characters
\* in the order they were popped.
PopChars(stack, chars) ==
    IF stack = <<>> THEN [ok |-> TRUE, stack |-> stack, chars |-> chars]
    ELSE LET val == Top(stack)
         IN IF val = 0 THEN [ok |-> TRUE, stack |-> Pop1(stack), chars |-> chars]
            ELSE IF ~chr_ok(val) THEN [ok |-> FALSE, stack |-> Pop1(stack), chars |-> chars]
            ELSE PopChars(Pop1(stack), Append(chars, chr(val)))

RECURSIVE PopCharsFront(_, _)
\* The loop of _pop_string with chars.insert(0, chr(val)) for chars.append.
PopCharsFront(stack, chars) ==
    IF stack = <<>> THEN [ok |-> TRUE, stack |-> stack, chars |-> chars]
    ELSE LET val == Top(stack)
         IN IF val = 0 THEN [ok |-> TRUE, stack |-> Pop1(stack), chars |-> chars]
            ELSE IF ~chr_ok(val) THEN [ok |-> FALSE, stack |-> Pop1(stack), chars |-> chars]
            ELSE PopCharsFront(Pop1(stack), <<chr(val)>> \o chars)

\* _pop_string that assembles the characters in push order.
pop_string_front(stack) == PopCharsFront(stack, <<>>)

\* Interpreter._pop_string
pop_string(stack) == PopChars(stack, <<>>)

\* op_merge that lets a failed merge raise.
op_merge_raising(s) ==
    IF Len(s.stack) < 2 THEN Ret(s, "None")
    ELSE LET y == Top(s.stack)
             x == Second(s.stack)
             ps == pop_string(Pop2(s.stack))
             filename == ps.chars
             merged == merge_grid(s.program, filename, x, y)
         IN IF ~ps.ok THEN Ret([s EXCEPT !.stack = ps.stack], "raise")
            ELSE Ret([s EXCEPT !.stack = ps.stack,
                               !.popped = filename,
                               !.program = merged.g],
                     IF merged.ok THEN "None" ELSE "raise")

\* op_merge: merge_grid catches its own exceptions and its result is dropped.
op_merge(s) ==
    IF Len(s.stack) < 2 THEN Ret(s, "None")
    ELSE LET y == Top(s.stack)
             x == Second(s.stack)
             ps == pop_string(Pop2(s.stack))
             filename == ps.chars
         IN IF ~ps.ok THEN Ret([s EXCEPT !.stack = ps.stack], "raise")
            ELSE Ret([s EXCEPT !.stack = ps.stack,
                               !.popped = filename,
                               !.program = merge_grid(s.program, filename, x, y).g], "None")

\* int(time.time()): now is the clock's reading.
op_time(s, now) == Ret([s EXCEPT !.stack = Append(s.stack, now)], "None")

\* time.sleep(n) raises ValueError for n < 0; otherwise only time passes.
op_wait(s) ==
    IF s.stack # <<>>
    THEN Ret([s EXCEPT !.stack = Pop1(s.stack)], IF Top(s.stack) < 0 THEN "raise" ELSE "None")
    ELSE Ret(s, "None")

\* op_vertical_mirror that bridges when the IP moves vertically.
op_vertical_mirror_upright(s) ==
    IF s.direction \in {<<0, -1>>, <<0, 1>>}
    THEN Ret([s EXCEPT !.ignore_mode = TRUE], "None")
    ELSE Ret(s, "None")

op_vertical_mirror(s) ==
    IF s.direction \in {<<-1, 0>>, <<1, 0>>} THEN Ret([s EXCEPT !.ignore_mode = TRUE], "None")
    ELSE Ret(s, "None")

op_horizontal_mirror(s) ==
    IF s.direction \in {<<0, -1>>, <<0, 1>>} THEN Ret([s EXCEPT !.ignore_mode = TRUE], "None")
    ELSE Ret(s, "None")

op_mirror_slash(s) ==
    IF s.stack = <<>> THEN Ret(s, "None")
    ELSE Ret([s EXCEPT !.stack = Pop1(s.stack),
                       !.direction = IF Top(s.stack) = 0 THEN TURN_LEFT(s.direction)
                                     ELSE TURN_RIGHT(s.direction)], "None")

\* op_mirror_backslash that turns as / does.
op_mirror_backslash_as_slash(s) ==
    IF s.stack = <<>> THEN Ret(s, "None")
    ELSE LET val == Top(s.stack)
         IN Ret([s EXCEPT !.stack = Pop1(s.stack),
                          !.direction = IF val = 0 THEN TURN_LEFT(s.direction)
                                        ELSE TURN_RIGHT(s.direction)], "None")

op_mirror_backslash(s) ==
    IF s.stack = <<>> THEN Ret(s, "None")
    ELSE LET val == Top(s.stack)
         IN Ret([s EXCEPT !.stack = Pop1(s.stack),
                          !.direction = IF val = 0 THEN TURN_RIGHT(s.direction)
                                        ELSE TURN_LEFT(s.direction)], "None")

op_exit(s) == Ret(s, "False")

op_quote(s) == Ret([s EXCEPT !.string_mode = TRUE], "None")

\* The keys of self.ops.
OpsKeys ==
    { C("^"), C(">"), C("<"), C("V"), C("?"), C("+"), C("-"), C("*"), C(":"), C("%"),
      C("&"), C("o"), C("x"), C("~"), C("="), C("("), C(")"), C("P"), C("S"), C("C"),
      C("D"), C("U"), C("{"), C("}"), C("L"), C("Z"), C("N"), C("A"), C("I"), C("h"),
      C("H"), C("g"), C("p"), C("j"), C("F"), C("R"), C("M"), C("T"), C("W"), C("|"),
      C("_"), C("/"), C("\\"), C("@"), C("\"") }

\* self.ops[char](): env holds what the world supplies to the handlers that
\* ask it: the direction random.choice draws, the clock's reading, the
\* host callback's result.
ops(s, char, env) ==
    CASE char = C("^") -> op_up(s)
      [] char = C(">") -> op_right(s)
      [] char = C("<") -> op_left(s)
      [] char = C("V") -> op_down(s)
      [] char = C("?") -> op_random_dir(s, env.choice)
      [] char = C("+") -> op_add(s)
      [] char = C("-") -> op_sub(s)
      [] char = C("*") -> op_mul(s)
      [] char = C(":") -> op_div(s)
      [] char = C("%") -> op_mod(s)
      [] char = C("&") -> op_and(s)
      [] char = C("o") -> op_or(s)
      [] char = C("x") -> op_xor(s)
      [] char = C("~") -> op_not(s)
      [] char = C("=") -> op_eq(s)
      [] char = C("(") -> op_less(s)
      [] char = C(")") -> op_greater(s)
      [] char = C("P") -> op_pop(s)
      [] char = C("S") -> op_swap(s)
      [] char = C("C") -> op_copy(s)
      [] char = C("D") -> op_move_to_aux(s)
      [] char = C("U") -> op_move_from_aux(s)
      [] char = C("{") -> op_rotate_left(s)
      [] char = C("}") -> op_rotate_right(s)
      [] char = C("L") -> op_len(s)
      [] char = C("Z") -> op_clear(s)
      [] char = C("N") -> op_print_num(s)
      [] char = C("A") -> op_print_char(s)
      [] char = C("I") -> op_input(s, env.val)
      [] char = C("h") -> op_heap_store(s)
      [] char = C("H") -> op_heap_load(s)
      [] char = C("g") -> op_grid_get(s)
      [] char = C("p") -> op_grid_put(s)
      [] char = C("j") -> op_jump(s)
      [] char = C("F") -> op_func_call(s)
      [] char = C("R") -> op_return(s)
      [] char = C("M") -> op_merge(s)
      [] char = C("T") -> op_time(s, env.now)
      [] char = C("W") -> op_wait(s)
      [] char = C("|") -> op_vertical_mirror(s)
      [] char = C("_") -> op_horizontal_mirror(s)
      [] char = C("/") -> op_mirror_slash(s)
      [] char = C("\\") -> op_mirror_backslash(s)
      [] char = C("@") -> op_exit(s)
      [] char = C("\"") -> op_quote(s)

\* char in "|_": Python's substring test, which '' passes for every string.
in_bar_underscore(char) == char = EMPTY \/ char \in {C("|"), C("_")}

\* process_char, string mode (lines 246-252): no try encloses ord(char).
process_string(s, char) ==
    IF char = C("\"") THEN Ret(move([s EXCEPT !.string_mode = FALSE]), "True")
    ELSE IF ~ord_ok(char) THEN Ret(s, "raise")
    ELSE Ret(move([s EXCEPT !.stack = Append(s.stack, ord(char))]), "True")

\* process_ignore that lets a quote through to op_quote while bridging.
process_ignore_quote(s, char) ==
    IF char = C("\"") THEN Ret(move([s EXCEPT !.string_mode = TRUE]), "True")
    ELSE IF in_bar_underscore(char) THEN Ret(move([s EXCEPT !.ignore_mode = FALSE]), "True")
    ELSE Ret(move(s), "True")

\* process_ignore that lets @ halt the program while it skips.
process_ignore_halting(s, char) ==
    IF char = C("@") THEN Ret(s, "False")
    ELSE IF in_bar_underscore(char) THEN Ret(move([s EXCEPT !.ignore_mode = FALSE]), "True")
    ELSE Ret(move(s), "True")

\* process_char, ignore mode (lines 254-258).
process_ignore(s, char) ==
    IF in_bar_underscore(char) THEN Ret(move([s EXCEPT !.ignore_mode = FALSE]), "True")
    ELSE Ret(move(s), "True")

\* The body of the try of process_char (lines 261-270): what it leaves the
\* interpreter as, and "None" (fell through), "False", "JUMPED" or "raise".
try_body(s, char, env) ==
    IF char = EMPTY THEN Ret(s, "None")
    ELSE IF isdigit(char)
         THEN IF int_ok(char) THEN Ret([s EXCEPT !.stack = Append(s.stack, int(char))], "None")
              ELSE Ret(s, "raise")
    ELSE IF char \in OpsKeys THEN ops(s, char, env)
    ELSE Ret(s, "None")

\* process_normal that moves the IP before it returns the handler's False.
process_normal_move(s, char, env) ==
    LET r == try_body(s, char, env)
    IN CASE r.res = "raise" -> Ret(r.st, "False")
         [] r.res = "False" -> Ret(move(r.st), "False")
         [] r.res = "JUMPED" -> Ret(r.st, "True")
         [] OTHER -> Ret(move(r.st), "True")

\* process_char, normal mode (lines 260-276): "except Exception: return
\* False"; the handler's False is returned as it is; JUMPED skips move.
process_normal(s, char, env) ==
    LET r == try_body(s, char, env)
    IN CASE r.res = "raise" -> Ret(r.st, "False")
         [] r.res = "False" -> Ret(r.st, "False")
         [] r.res = "JUMPED" -> Ret(r.st, "True")
         [] OTHER -> Ret(move(r.st), "True")

\* Interpreter.process_char: res is "True" or "False", the value returned,
\* or "raise" when an exception leaves process_char.
process_char(s, char, env) ==
    IF s.string_mode THEN process_string(s, char)
    ELSE IF s.ignore_mode THEN process_ignore(s, char)
    ELSE process_normal(s, char, env)

\* ------------------------------------------------------------------ host
\* The source texts the host loads: rows joined by '\n'; the last one is
\* the empty text.
Programs ==
    { Str(<<"3", "4", "+", "N", "@">>),
      Str(<<"0", "1", "-", "A", "5", "N", "@">>),
      Str(<<"|", "5", "N", "|", "@">>),
      Str(<<"\"", "|", "\"", "|", "\"", "|", "@">>),
      Str(<<"|", "@", "\n", " ", " ", " ", " ">>),
      Str(<<"\"", "a", "b", "\"", "@">>),
      Str(<<"\"", "a", "\n", " ", " ", " ">>),
      Str(<<"1", "/", "\n", "@", ">">>),
      Str(<<"0", "\\", "@", "\n", " ", "P", "\n", " ", "^">>),
      Str(<<"4", "2", " ", "7", " ", "h", " ", "7", " ", "H", " ", "N", " ", "@">>),
      Str(<<"3", "0", "1", "F", "N", "@", "\n", "5", "R">>),
      Str(<<"I", "I", "I", "N", "@">>),
      Str(<<"\"", "a", "\"", "0", "0", "p", "@">>),
      Str(<<"0", "\"", "a", "\"", "0", "0", "M", "@">>),
      Str(<<">", "?", "@", "\n", " ", "@">>),
      Str(<<"T", "P", "0", "1", "-", "W", "@">>),
      Str(<<"V", "\n", "_", "\n", "@", "\n", "_", "\n", "@">>),
      Str(<<"7", "3", ":", "7", "3", "%", "=", "~", "@">>),
      Str(<<"1", "2", "S", "C", "D", "U", "{", "}", "L", "Z", "@">>),
      Str(<<"6", "3", "&", "5", "o", "3", "x", "2", "(", "1", ")", "*", "@">>),
      Str(<<"0", "0", "g", "P", "R", "j", "0", "0", "j">>),
      Str(<<"V", "<", "\n", ">", "^">>),
      Str(<<"1", "/", " ", "\\", "@", "\n", " ", "0", " ", "0", "\n", " ", "/", "1", "\\">>),
      Str(<<"0", "1", "F", "5", "N", "@", "\n", "V", ">", "R", "\n", "1", "\n", "1", "\n",
            "F", "\n", "R">>),
      Str(<<"5", "9", "1", "p", "@">>),
      Str(<<"0", "\"", "a", "\"", "0", "~", "0", "M", "@">>),
      <<>> }

\* The texts the host supplies as input: "" and "ab".
Inputs == {<<>>, Str(<<"a", "b">>)}

\* The arguments the host constructs the interpreter with: the command
\* line and the debugger pass a callback and no input.
Constructions ==
    { <<None, "callback">>, <<Str(<<"a", "b">>), "callback">>, <<None, "None">> }

\* The readings of the clock (seconds) met by T.
Clock == {5}

\* What the world supplies to one step.
Envs == [choice : DirectionValues, now : Clock, val : CallbackResults]

\* The environments that differ for the step on char: one, unless the
\* handler of char asks the world.
EnvsFor(char) ==
    LET e0 == CHOOSE e \in Envs : TRUE
    IN CASE char = C("?") -> {[e0 EXCEPT !.choice = d] : d \in DirectionValues}
         [] char = C("T") -> {[e0 EXCEPT !.now = n] : n \in Clock}
         [] char = C("I") -> {[e0 EXCEPT !.val = v] : v \in CallbackResults}
         [] OTHER -> {e0}

\* self.program before load_code: None.
NoProgram == [map |-> <<>>, rows |-> -1, cols |-> -1]

VARIABLES
    program, stack, addition_stack, output, call_stack, heap, x, y, direction,
    ignore_mode, string_mode, input, input_pointer, built_in_input,
    code,         \* the source text the host holds (editor / program_code)
    run_state,    \* the last call of run: "idle" (none yet), "running",
                  \* "returned_true", "returned_false", "raised"
    run_steps,    \* its argument
    run_i,        \* cells it has consumed (counted for steps > 0)
    prev_state,   \* what the call of run before it came to
    cb_called,    \* whether the last step called the host callback
    popped,       \* the last string _pop_string returned to op_merge
    load_state,   \* the last call of load_code: "idle" (none yet), "loaded",
                  \* "raised" (GridMap raised ValueError)
    i_base,       \* input_pointer as construction, reset or set_input set it
    i_count,      \* executions of I in normal mode since then
    window        \* the debugger's MainWindow: its timer, whether the
                  \* application is alive, the slot that ran last, whether
                  \* that slot ended with update_debug_view, and the
                  \* snapshot on display (none without a debugger)

vars ==
    <<program, stack, addition_stack, output, call_stack, heap, x, y, direction,
      ignore_mode, string_mode, input, input_pointer, built_in_input,
      code, run_state, prev_state, run_steps, run_i, cb_called, popped, i_base,
      i_count, load_state, window>>

\* The window of a host that has none (the command line), and of the
\* debugger before any slot has run: QTimer() is created stopped and
\* nothing is on display.
NoWindow ==
    [timer |-> "stopped", alive |-> TRUE, slot |-> "none", shown |-> FALSE,
     view |-> <<>>]

\* The interpreter object.
Self ==
    [program |-> program, stack |-> stack, addition_stack |-> addition_stack,
     output |-> output, call_stack |-> call_stack, heap |-> heap, x |-> x, y |-> y,
     direction |-> direction, ignore_mode |-> ignore_mode, string_mode |-> string_mode,
     input |-> input, input_pointer |-> input_pointer, built_in_input |-> built_in_input,
     cb_called |-> FALSE, popped |-> popped]

\* The interpreter object becomes s.
Becomes(s) ==
    /\ program' = s.program
    /\ stack' = s.stack
    /\ addition_stack' = s.addition_stack
    /\ output' = s.output
    /\ call_stack' = s.call_stack
    /\ heap' = s.heap
    /\ x' = s.x
    /\ y' = s.y
    /\ direction' = s.direction
    /\ ignore_mode' = s.ignore_mode
    /\ string_mode' = s.string_mode
    /\ input' = s.input
    /\ input_pointer' = s.input_pointer
    /\ built_in_input' = s.built_in_input
    /\ cb_called' = s.cb_called
    /\ popped' = s.popped

\* Interpreter.__init__
Interpreter_init(program_input, build_in_input) ==
    [program |-> NoProgram, stack |-> <<>>, addition_stack |-> <<>>, output |-> <<>>,
     call_stack |-> <<>>, heap |-> <<>>, x |-> 0, y |-> 0, direction |-> <<1, 0>>,
     ignore_mode |-> FALSE, string_mode |-> FALSE, input |-> program_input,
     input_pointer |-> 0, built_in_input |-> build_in_input, cb_called |-> FALSE,
     popped |-> <<>>]

\* reset that leaves the call stack as it is.
reset_keeps_calls(s) ==
    [s EXCEPT !.stack = <<>>, !.addition_stack = <<>>, !.output = <<>>,
              !.heap = <<>>, !.ignore_mode = FALSE,
              !.string_mode = FALSE, !.input_pointer = 0, !.x = 0, !.y = 0,
              !.direction = <<1, 0>>]

\* Interpreter.reset
reset(s) ==
    [s EXCEPT !.stack = <<>>, !.addition_stack = <<>>, !.output = <<>>,
              !.call_stack = <<>>, !.heap = <<>>, !.ignore_mode = FALSE,
              !.string_mode = FALSE, !.input_pointer = 0, !.x = 0, !.y = 0,
              !.direction = <<1, 0>>]

\* Interpreter.set_input
set_input(s, input_data, pointer_position) ==
    [s EXCEPT !.input = input_data, !.input_pointer = pointer_position,
              !.built_in_input = IF Truthy(input_data) THEN "False" ELSE "True"]

\* Interpreter.load_code: ok is FALSE when GridMap raised ValueError, which
\* leaves self.program as it was.
load_code(s, text) ==
    LET g == GridMap_init(None, text)
    IN IF g.ok THEN [ok |-> TRUE, st |-> [s EXCEPT !.program = g.g]]
       ELSE [ok |-> FALSE, st |-> s]

\* Interpreter.get_current_char: "if self.program" is false for None and
\* for a grid of length 0.
get_current_char(s) ==
    IF s.program # NoProgram /\ grid_len(s.program) # 0
    THEN get_item(s.program, s.x, s.y)
    ELSE EMPTY

RECURSIVE Join(_)
\* "".join(self.output)
Join(fragments) ==
    IF fragments = <<>> THEN <<>> ELSE Head(fragments) \o Join(Tail(fragments))

\* Interpreter.get_output
get_output(s) == Join(s.output)

\* Interpreter.get_information
get_information(s) ==
    [output |-> get_output(s), stack |-> s.stack, addition_stack |-> s.addition_stack,
     call_stack |-> s.call_stack, heap |-> s.heap, position |-> <<s.x, s.y>>,
     direction |-> s.direction, character |-> get_current_char(s),
     ignore_mode |-> s.ignore_mode, string_mode |-> s.string_mode,
     input |-> s.input, input_pointer |-> s.input_pointer]

\* The states that are followed: every integer, depth and size within the
\* bounds.
Abs(n) == IF n < 0 THEN -n ELSE n

InBounds(s) ==
    /\ Len(s.stack) <= MaxStack
    /\ Len(s.addition_stack) <= MaxStack
    /\ Len(s.call_stack) <= MaxCalls
    /\ Len(s.output) <= MaxOut
    /\ Cardinality(DOMAIN s.heap) <= MaxHeap
    /\ \A i \in 1..Len(s.stack) : Abs(s.stack[i]) <= MaxVal
    /\ \A i \in 1..Len(s.addition_stack) : Abs(s.addition_stack[i]) <= MaxVal
    /\ \A a \in DOMAIN s.heap : Abs(a) <= MaxVal /\ Abs(s.heap[a]) <= MaxVal
    /\ Abs(s.x) <= MaxCoord /\ Abs(s.y) <= MaxCoord
    /\ s.program.rows <= MaxDim /\ s.program.cols <= MaxDim

\* ---------------------------------------------------------------- actions
\* The state after construction: Interpreter(program_input, build_in_input),
\* the host holding a source text.
Init ==
    /\ code \in Programs
    /\ \E args \in Constructions :
         LET s == Interpreter_init(args[1], args[2])
         IN /\ program = s.program /\ stack = s.stack
            /\ addition_stack = s.addition_stack /\ output = s.output
            /\ call_stack = s.call_stack /\ heap = s.heap /\ x = s.x /\ y = s.y
            /\ direction = s.direction /\ ignore_mode = s.ignore_mode
            /\ string_mode = s.string_mode /\ input = s.input
            /\ input_pointer = s.input_pointer /\ built_in_input = s.built_in_input
            /\ cb_called = s.cb_called
            /\ popped = s.popped
    /\ run_state = "idle"
    /\ load_state = "idle"
    /\ prev_state = "idle"
    /\ run_steps = 0
    /\ run_i = 0
    /\ i_base = 0
    /\ i_count = 0
    /\ window = NoWindow

\* The host calls load_code(code).
LoadCode ==
    /\ run_state # "running"
    /\ UNCHANGED window
    /\ Becomes(load_code(Self, code).st)
    /\ load_state' = IF load_code(Self, code).ok THEN "loaded" ELSE "raised"
    /\ UNCHANGED <<code, run_state, prev_state, run_steps, run_i, i_base, i_count>>

\* The host calls reset().
Reset ==
    /\ run_state # "running"
    /\ UNCHANGED window
    /\ Becomes(reset(Self))
    /\ i_base' = 0
    /\ i_count' = 0
    /\ UNCHANGED <<code, run_state, prev_state, run_steps, run_i, load_state>>

\* The host calls set_input(input_data, pointer_position).
SetInput ==
    /\ run_state # "running"
    /\ UNCHANGED window
    /\ \E input_data \in Inputs, pointer_position \in {0, 1} :
         /\ Becomes(set_input(Self, input_data, pointer_position))
         /\ i_base' = pointer_position
    /\ i_count' = 0
    /\ UNCHANGED <<code, run_state, prev_state, run_steps, run_i, load_state>>

\* The host calls run(steps): steps < 0 raises ValueError; otherwise the
\* loop starts (steps = 0 loops until a step returns False).
RunCall ==
    /\ run_state # "running"
    /\ UNCHANGED window
    /\ \E steps \in -1..MaxSteps :
         /\ run_steps' = steps
         /\ run_state' = IF steps < 0 THEN "raised" ELSE "running"
    /\ prev_state' = run_state
    /\ run_i' = 0
    /\ cb_called' = FALSE
    /\ UNCHANGED <<program, stack, addition_stack, output, call_stack, heap, x, y,
                   direction, ignore_mode, string_mode, input, input_pointer,
                   built_in_input, code, popped, i_base, i_count, load_state>>

\* One iteration of the loop of run (lines 178-181, 183-186): get_item,
\* process_char, and the return from run when the step returned False or
\* the for loop is exhausted.  self.program = None raises AttributeError.
Step ==
    /\ run_state = "running"
    /\ UNCHANGED window
    /\ IF program = NoProgram
       THEN /\ run_state' = "raised"
            /\ UNCHANGED <<program, stack, addition_stack, output, call_stack, heap, x, y,
                           direction, ignore_mode, string_mode, input, input_pointer,
                           built_in_input, code, prev_state, run_steps, run_i,
                           cb_called, popped, i_base, i_count, load_state>>
       ELSE LET char == get_item(program, x, y)
            IN \E env \in EnvsFor(char) :
                 LET r == process_char(Self, char, env)
                 IN /\ InBounds(r.st)
                    /\ i_count < MaxICount
                    /\ Becomes(r.st)
                    /\ run_state' =
                         CASE r.res = "raise" -> "raised"
                           [] r.res = "False" -> "returned_false"
                           [] r.res = "True" /\ run_steps > 0 /\ run_i + 1 = run_steps
                                -> "returned_true"
                           [] OTHER -> "running"
                    /\ run_i' = IF run_steps > 0 /\ r.res # "raise" THEN run_i + 1 ELSE run_i
                    /\ i_count' = IF ~string_mode /\ ~ignore_mode /\ char = C("I")
                                  THEN i_count + 1 ELSE i_count
                    /\ UNCHANGED <<code, prev_state, run_steps, i_base, load_state>>

Next == LoadCode \/ Reset \/ SetInput \/ RunCall \/ Step

Spec == Init /\ [][Next]_vars

\* ------------------------------------------ every small program (SpecGen)
\* The characters the generated programs are written in: the quote, both
\* bridges, a turn, and a mirror with what feeds it.
GenAlphabet ==
    {C("\""), C("|"), C("_"), C("V"), C("/"), C("1")}

\* Every one-row program over GenAlphabet of length 1..GenLen.
GenPrograms == UNION {[1..n -> GenAlphabet] : n \in 1..GenLen}

\* The interpreter constructed by a host that holds one of the programs above
\* or a generated one, and supplies the input callback.
InitGen ==
    /\ code \in Programs \cup GenPrograms
    /\ LET s == Interpreter_init(None, "callback")
       IN /\ program = s.program /\ stack = s.stack
          /\ addition_stack = s.addition_stack /\ output = s.output
          /\ call_stack = s.call_stack /\ heap = s.heap /\ x = s.x /\ y = s.y
          /\ direction = s.direction /\ ignore_mode = s.ignore_mode
          /\ string_mode = s.string_mode /\ input = s.input
          /\ input_pointer = s.input_pointer /\ built_in_input = s.built_in_input
          /\ cb_called = s.cb_called
          /\ popped = s.popped
    /\ run_state = "idle"
    /\ load_state = "idle"
    /\ prev_state = "idle"
    /\ run_steps = 0
    /\ run_i = 0
    /\ i_base = 0
    /\ i_count = 0
    /\ window = NoWindow

NextGen == LoadCode \/ Reset \/ RunCall \/ Step

SpecGen == InitGen /\ [][NextGen]_vars

\* ------------------------------------------- the string round trip (SpecRT)
\* The characters of the strings pushed: two letters and two opcodes.
RTAlphabet == {C("a"), C("b"), C("@"), C("|")}

\* Every string over RTAlphabet of length 0..MaxLen (no quote, no NUL).
RTStrings == UNION {[1..n -> RTAlphabet] : n \in 0..MaxLen}

\* The program 70"s"00M@: a 7, the 0 sentinel, s pushed in string mode,
\* then M with offsets (0, 0), whose file name _pop_string pops.
RTProgram(s) == Str(<<"7", "0", "\"">>) \o s \o Str(<<"\"", "0", "0", "M", "@">>)

\* The string s of the program RTProgram(s).
RTString(text) == SubSeq(text, 4, Len(text) - 5)

\* The interpreter constructed by a host that holds a round-trip program.
InitRT ==
    /\ code \in {RTProgram(s) : s \in RTStrings}
    /\ LET s == Interpreter_init(None, "None")
       IN /\ program = s.program /\ stack = s.stack
          /\ addition_stack = s.addition_stack /\ output = s.output
          /\ call_stack = s.call_stack /\ heap = s.heap /\ x = s.x /\ y = s.y
          /\ direction = s.direction /\ ignore_mode = s.ignore_mode
          /\ string_mode = s.string_mode /\ input = s.input
          /\ input_pointer = s.input_pointer /\ built_in_input = s.built_in_input
          /\ cb_called = s.cb_called
          /\ popped = s.popped
    /\ run_state = "idle"
    /\ load_state = "idle"
    /\ prev_state = "idle"
    /\ run_steps = 0
    /\ run_i = 0
    /\ i_base = 0
    /\ i_count = 0
    /\ window = NoWindow

NextRT == LoadCode \/ RunCall \/ Step

SpecRT == InitRT /\ [][NextRT]_vars

\* ------------------------------------- opcodes and their arity (SpecArity)
\* The opcodes that take values from a stack.
ArityOps ==
    { C("+"), C("-"), C("*"), C(":"), C("%"), C("&"), C("o"), C("x"), C("~"), C("="),
      C("("), C(")"), C("P"), C("S"), C("C"), C("D"), C("U"), C("{"), C("}"), C("N"),
      C("A"), C("h"), C("H"), C("g"), C("p"), C("/"), C("\\") }

\* The number of values the handler of char asks its stack for before it
\* does anything (its guard on len(self.stack), or on the aux stack for U).
Arity(char) ==
    CASE char = C("p") -> 3
      [] char \in {C("~"), C("P"), C("C"), C("D"), C("U"), C("N"), C("A"), C("H"),
                   C("/"), C("\\")} -> 1
      [] OTHER -> 2

\* The programs that push k values, k = 0..3, execute one opcode and halt.
ArityPrograms ==
    {SubSeq(Str(<<"1", "2", "3">>), 1, k) \o <<op>> \o Str(<<"@">>) :
         k \in 0..3, op \in ArityOps}

\* The interpreter constructed by a host that holds one of the programs
\* above, and supplies the input callback.
InitArity ==
    /\ code \in Programs \cup ArityPrograms
    /\ LET s == Interpreter_init(None, "callback")
       IN /\ program = s.program /\ stack = s.stack
          /\ addition_stack = s.addition_stack /\ output = s.output
          /\ call_stack = s.call_stack /\ heap = s.heap /\ x = s.x /\ y = s.y
          /\ direction = s.direction /\ ignore_mode = s.ignore_mode
          /\ string_mode = s.string_mode /\ input = s.input
          /\ input_pointer = s.input_pointer /\ built_in_input = s.built_in_input
          /\ cb_called = s.cb_called
          /\ popped = s.popped
    /\ run_state = "idle"
    /\ load_state = "idle"
    /\ prev_state = "idle"
    /\ run_steps = 0
    /\ run_i = 0
    /\ i_base = 0
    /\ i_count = 0
    /\ window = NoWindow

SpecArity == InitArity /\ [][NextGen]_vars

\* ------------------------------------------- p followed by g (SpecPG)
\* The values p is given: one chr rejects, NUL, a control character, a letter.
PGVals == {-1, 0, 5, 72}

\* The coordinates p and g are given: one negative, the origin, one cell
\* inside the program and one past its last row and column.
PGCoords == {-1, 0, 1, 9}

\* The cells that push n: "0~" for -1, a digit for 0..9, "98*" for 72.
PGPush(n) ==
    IF n = -1 THEN Str(<<"0", "~">>)
    ELSE IF n = 72 THEN Str(<<"9", "8", "*">>)
    ELSE <<48 + n>>

\* The program that pushes val, px, py, executes p, pushes px, py again and
\* executes g.
PGProgram(val, px, py) ==
    PGPush(val) \o PGPush(px) \o PGPush(py) \o Str(<<"p">>)
        \o PGPush(px) \o PGPush(py) \o Str(<<"g", "@">>)

\* The interpreter as the command line leaves it before run: constructed
\* without input, the program loaded.
InitPG ==
    /\ code \in {PGProgram(val, px, py) : val \in PGVals, px \in PGCoords, py \in PGCoords}
    /\ LET s == load_code(Interpreter_init(None, "None"), code).st
       IN /\ program = s.program /\ stack = s.stack
          /\ addition_stack = s.addition_stack /\ output = s.output
          /\ call_stack = s.call_stack /\ heap = s.heap /\ x = s.x /\ y = s.y
          /\ direction = s.direction /\ ignore_mode = s.ignore_mode
          /\ string_mode = s.string_mode /\ input = s.input
          /\ input_pointer = s.input_pointer /\ built_in_input = s.built_in_input
          /\ cb_called = s.cb_called
          /\ popped = s.popped
    /\ run_state = "idle"
    /\ load_state = "loaded"
    /\ prev_state = "idle"
    /\ run_steps = 0
    /\ run_i = 0
    /\ i_base = 0
    /\ i_count = 0
    /\ window = NoWindow

NextPG == RunCall \/ Step

SpecPG == InitPG /\ [][NextPG]_vars

\* --------------------------------------------- the heap (SpecHeap)
\* The values h stores and the addresses h and H are given.
HeapVals == {0, 5}
HeapAddrs == {-1, 3, 7}

\* The program that stores v1 at a1, then v2 at a2, then loads from a3.
HeapProgram(v1, a1, v2, a2, a3) ==
    PGPush(v1) \o PGPush(a1) \o Str(<<"h">>) \o PGPush(v2) \o PGPush(a2) \o Str(<<"h">>)
        \o PGPush(a3) \o Str(<<"H", "@">>)

\* The interpreter as the command line leaves it before run: constructed
\* without input, a heap program loaded.
InitHeap ==
    /\ code \in {HeapProgram(v1, a1, v2, a2, a3) :
                    v1 \in HeapVals, a1 \in HeapAddrs, v2 \in HeapVals, a2 \in HeapAddrs,
                    a3 \in HeapAddrs}
    /\ LET s == load_code(Interpreter_init(None, "None"), code).st
       IN /\ program = s.program /\ stack = s.stack
          /\ addition_stack = s.addition_stack /\ output = s.output
          /\ call_stack = s.call_stack /\ heap = s.heap /\ x = s.x /\ y = s.y
          /\ direction = s.direction /\ ignore_mode = s.ignore_mode
          /\ string_mode = s.string_mode /\ input = s.input
          /\ input_pointer = s.input_pointer /\ built_in_input = s.built_in_input
          /\ cb_called = s.cb_called
          /\ popped = s.popped
    /\ run_state = "idle"
    /\ load_state = "loaded"
    /\ prev_state = "idle"
    /\ run_steps = 0
    /\ run_i = 0
    /\ i_base = 0
    /\ i_count = 0
    /\ window = NoWindow

SpecHeap == InitHeap /\ [][NextPG]_vars

\* ------------------------------------------- the mirrors (SpecMirror)
\* The cell before each mirror: a 0, a 1, or a blank that pushes nothing.
MirrorFeeds == {C("0"), C("1"), C(" ")}

\* The program that jumps to the ? at (3, 3), around which each of the four
\* directions leads over a cell f to a mirror m.
MirrorProgram(f, m) ==
    Str(<<"3", "3", "j", "\n">>)
      \o <<32, 32, 32, m, 10>>
      \o <<32, 32, 32, f, 10>>
      \o <<32, m, f, C("?"), f, m, 10>>
      \o <<32, 32, 32, f, 10>>
      \o <<32, 32, 32, m>>

\* The interpreter as the command line leaves it before run: constructed
\* without input, a mirror program loaded.
InitMirror ==
    /\ code \in {MirrorProgram(f, m) : f \in MirrorFeeds, m \in {C("/"), C("\\")}}
    /\ LET s == load_code(Interpreter_init(None, "None"), code).st
       IN /\ program = s.program /\ stack = s.stack
          /\ addition_stack = s.addition_stack /\ output = s.output
          /\ call_stack = s.call_stack /\ heap = s.heap /\ x = s.x /\ y = s.y
          /\ direction = s.direction /\ ignore_mode = s.ignore_mode
          /\ string_mode = s.string_mode /\ input = s.input
          /\ input_pointer = s.input_pointer /\ built_in_input = s.built_in_input
          /\ cb_called = s.cb_called
          /\ popped = s.popped
    /\ run_state = "idle"
    /\ load_state = "loaded"
    /\ prev_state = "idle"
    /\ run_steps = 0
    /\ run_i = 0
    /\ i_base = 0
    /\ i_count = 0
    /\ window = NoWindow

SpecMirror == InitMirror /\ [][NextPG]_vars

\* ------------------------------------------ subtraction and division (SpecArith)
\* The operands pushed: both signs, zero, and pairs that do not divide.
Nums == {-7, -2, -1, 0, 2, 7}

\* The cells that push n: a digit for 0..9, "0", the digit of -n, "-" below 0.
NumPush(n) == IF n < 0 THEN <<48, 48 - n, C("-")>> ELSE <<48 + n>>

\* The program that pushes a, then b, and executes op.
ArithProgram(a, b, op) == NumPush(a) \o NumPush(b) \o <<op>> \o Str(<<"@">>)

\* The interpreter as the command line leaves it before run: constructed
\* without input, an arithmetic program loaded.
InitArith ==
    /\ code \in {ArithProgram(a, b, op) : a \in Nums, b \in Nums, op \in {C("-"), C(":"), C("%")}}
    /\ LET s == load_code(Interpreter_init(None, "None"), code).st
       IN /\ program = s.program /\ stack = s.stack
          /\ addition_stack = s.addition_stack /\ output = s.output
          /\ call_stack = s.call_stack /\ heap = s.heap /\ x = s.x /\ y = s.y
          /\ direction = s.direction /\ ignore_mode = s.ignore_mode
          /\ string_mode = s.string_mode /\ input = s.input
          /\ input_pointer = s.input_pointer /\ built_in_input = s.built_in_input
          /\ cb_called = s.cb_called
          /\ popped = s.popped
    /\ run_state = "idle"
    /\ load_state = "loaded"
    /\ prev_state = "idle"
    /\ run_steps = 0
    /\ run_i = 0
    /\ i_base = 0
    /\ i_count = 0
    /\ window = NoWindow

SpecArith == InitArith /\ [][NextPG]_vars

\* ------------------------------------ input from the host (SpecCallback)
\* The programs that read input: three reads and a print; one read.
InputPrograms == {Str(<<"I", "I", "I", "N", "@">>), Str(<<"I", "5", "N", "@">>)}

\* The interpreter constructed, as the debugger and the command line do,
\* with the host's callback and no input, the host holding an input program.
InitCallback ==
    /\ code \in InputPrograms
    /\ LET s == Interpreter_init(None, "callback")
       IN /\ program = s.program /\ stack = s.stack
          /\ addition_stack = s.addition_stack /\ output = s.output
          /\ call_stack = s.call_stack /\ heap = s.heap /\ x = s.x /\ y = s.y
          /\ direction = s.direction /\ ignore_mode = s.ignore_mode
          /\ string_mode = s.string_mode /\ input = s.input
          /\ input_pointer = s.input_pointer /\ built_in_input = s.built_in_input
          /\ cb_called = s.cb_called
          /\ popped = s.popped
    /\ run_state = "idle"
    /\ load_state = "idle"
    /\ prev_state = "idle"
    /\ run_steps = 0
    /\ run_i = 0
    /\ i_base = 0
    /\ i_count = 0
    /\ window = NoWindow

SpecCallback == InitCallback /\ [][Next]_vars

\* --------------------------- jumps that cannot be taken (SpecUnder)
\* What is pushed before the jump: nothing, one value, two values.
UnderFeeds == {<<>>, Str(<<"1">>), Str(<<"1", "2">>)}

\* The jumps, and the feeds that leave each of them unable to jump: j and F
\* need two values on the stack, R needs an address on the call stack.
UnderOps == {C("j"), C("F"), C("R")}

UnderFeedsOf(op) == IF op = C("R") THEN UnderFeeds ELSE {f \in UnderFeeds : Len(f) < 2}

RECURSIVE Column(_)
\* The cells of a row written one under another.
Column(row) ==
    IF row = <<>> THEN <<>>
    ELSE IF Len(row) = 1 THEN row
    ELSE <<row[1], 10>> \o Column(Tail(row))

\* feed, the jump, then 5 N @; down is TRUE for the program written as a
\* column under a V, so that the jump is met heading south.
UnderProgram(feed, op, down) ==
    LET row == feed \o <<op>> \o Str(<<"5", "N", "@">>)
    IN IF down THEN Column(<<C("V")>> \o row) ELSE row

UnderPrograms ==
    UNION {{UnderProgram(f, op, d) : f \in UnderFeedsOf(op), d \in BOOLEAN} : op \in UnderOps}

InitUnder ==
    /\ code \in UnderPrograms
    /\ LET s == load_code(Interpreter_init(None, "None"), code).st
       IN /\ program = s.program /\ stack = s.stack
          /\ addition_stack = s.addition_stack /\ output = s.output
          /\ call_stack = s.call_stack /\ heap = s.heap /\ x = s.x /\ y = s.y
          /\ direction = s.direction /\ ignore_mode = s.ignore_mode
          /\ string_mode = s.string_mode /\ input = s.input
          /\ input_pointer = s.input_pointer /\ built_in_input = s.built_in_input
          /\ cb_called = s.cb_called
          /\ popped = s.popped
    /\ run_state = "idle"
    /\ load_state = "loaded"
    /\ prev_state = "idle"
    /\ run_steps = 0
    /\ run_i = 0
    /\ i_base = 0
    /\ i_count = 0
    /\ window = NoWindow

SpecUnder == InitUnder /\ [][NextPG]_vars

\* ------------------------------------------ the debugger (SpecDebugger)
\* What get_content_as_string hands to load_code: the rows of the editor,
\* every empty cell a space, joined by '\n'.  Editors of one row holding
\* 1N@, an unclosed string, a fault (chr(-1)) and a read of input, and an
\* editor of two rows.
EditorContents ==
    { Str(<<"1", "N", "@">>),
      Str(<<"\"", "a">>),
      Str(<<"0", "1", "-", "A", "@">>),
      Str(<<"I", " ">>),
      Str(<<"V", " ", "\n", "@", " ">>) }

\* ask_input: the text of the dialog, or "" when it was cancelled.
DebugEnvsFor(char) ==
    IF char = C("I") THEN {e \in EnvsFor(char) : e.val.kind = "str"} ELSE EnvsFor(char)

\* MainWindow.__init__: the interpreter constructed with ask_input, the
\* timer created and connected; nothing loaded and nothing displayed yet.
InitDebugger ==
    /\ code \in EditorContents
    /\ LET s == Interpreter_init(None, "callback")
       IN /\ program = s.program /\ stack = s.stack
          /\ addition_stack = s.addition_stack /\ output = s.output
          /\ call_stack = s.call_stack /\ heap = s.heap /\ x = s.x /\ y = s.y
          /\ direction = s.direction /\ ignore_mode = s.ignore_mode
          /\ string_mode = s.string_mode /\ input = s.input
          /\ input_pointer = s.input_pointer /\ built_in_input = s.built_in_input
          /\ cb_called = s.cb_called
          /\ popped = s.popped
    /\ run_state = "idle"
    /\ load_state = "idle"
    /\ prev_state = "idle"
    /\ run_steps = 0
    /\ run_i = 0
    /\ i_base = 0
    /\ i_count = 0
    /\ window = NoWindow

\* MainWindow.run: reset() (which ends with update_debug_view), load_code(),
\* timer.start().
MainWindow_run ==
    /\ window.alive
    /\ Becomes(load_code(reset(Self), code).st)
    /\ load_state' = IF load_code(reset(Self), code).ok THEN "loaded" ELSE "raised"
    /\ i_base' = 0
    /\ i_count' = 0
    /\ window' = [timer |-> "active", alive |-> TRUE, slot |-> "run", shown |-> TRUE,
                  view |-> <<get_information(reset(Self))>>]
    /\ UNCHANGED <<code, run_state, prev_state, run_steps, run_i>>

\* MainWindow.stop: timer.stop().
MainWindow_stop ==
    /\ window.alive
    /\ window' = [window EXCEPT !.timer = "stopped", !.slot = "stop", !.shown = FALSE]
    /\ UNCHANGED <<program, stack, addition_stack, output, call_stack, heap, x, y,
                   direction, ignore_mode, string_mode, input, input_pointer,
                   built_in_input, code, run_state, prev_state, run_steps, run_i,
                   cb_called, popped, i_base, i_count, load_state>>

\* MainWindow.reset: interpreter.reset(), update_debug_view().
MainWindow_reset ==
    /\ window.alive
    /\ Becomes(reset(Self))
    /\ i_base' = 0
    /\ i_count' = 0
    /\ window' = [window EXCEPT !.slot = "reset", !.shown = TRUE,
                                !.view = <<get_information(reset(Self))>>]
    /\ UNCHANGED <<code, run_state, prev_state, run_steps, run_i, load_state>>

\* The body of MainWindow.step, run as the slot named: load_code() when the
\* interpreter has no program, run(1), stop() when it returned False,
\* update_debug_view().  An exception that leaves run(1) leaves the slot:
\* neither stop() nor update_debug_view() is reached, and PyQt5 either
\* prints it and goes on or aborts the application.
StepSlot(slot) ==
    LET loads == program = NoProgram \/ grid_len(program) = 0
    IN \E s1 \in {IF loads THEN load_code(Self, code).st ELSE Self} :
       \E char \in {get_item(s1.program, s1.x, s1.y)} :
       \E env \in DebugEnvsFor(char) :
       \E r \in {process_char(s1, char, env)} :
         /\ InBounds(r.st)
         /\ i_count < MaxICount
         /\ Becomes(r.st)
         /\ run_steps' = 1
         /\ prev_state' = run_state
         /\ run_state' = CASE r.res = "raise" -> "raised"
                           [] r.res = "False" -> "returned_false"
                           [] OTHER -> "returned_true"
         /\ run_i' = IF r.res # "raise" THEN 1 ELSE 0
         /\ i_count' = IF ~s1.string_mode /\ ~s1.ignore_mode /\ char = C("I")
                       THEN i_count + 1 ELSE i_count
         /\ load_state' = IF loads THEN "loaded" ELSE load_state
         /\ IF r.res = "raise"
            THEN \E alive \in BOOLEAN :
                   window' = [window EXCEPT !.alive = alive, !.slot = slot,
                                            !.shown = FALSE]
            ELSE window' = [timer |-> IF r.res = "False" THEN "stopped"
                                      ELSE window.timer,
                            alive |-> TRUE, slot |-> slot, shown |-> TRUE,
                            view |-> <<get_information(r.st)>>]
         /\ UNCHANGED <<code, i_base>>

\* The Step button: MainWindow.step.
MainWindow_step == window.alive /\ StepSlot("step")

\* A tick of the timer: timer.timeout is connected to MainWindow.step; a
\* stopped timer does not tick.
Timeout == window.alive /\ window.timer = "active" /\ StepSlot("timeout")

NextDebugger ==
    MainWindow_run \/ MainWindow_stop \/ MainWindow_reset \/ MainWindow_step \/ Timeout

SpecDebugger == InitDebugger /\ [][NextDebugger]_vars

\* ----------------------------------------------------------------- claims
\* The cell run reads next.
CurChar == get_item(program, x, y)

\* run is in its loop on a loaded program: the next transition is a step.
Stepping == run_state = "running" /\ program # NoProgram

\* The next step is a step in normal mode.
NormalStep == Stepping /\ ~string_mode /\ ~ignore_mode

\* The IP advances one cell in the direction the step began with.
Advances == x' = x + direction[1] /\ y' = y + direction[2]

\* C1: in every reachable state, after every step and every reset,
\* ignore_mode and string_mode are not both true.
C1_ModesExclusive == ~(ignore_mode /\ string_mode)

\* C1: the bridge is being crossed and the cell under the IP is a quote.
C1_Witness == ignore_mode /\ Stepping /\ CurChar = C("\"")

\* C2: in every reachable state the direction is one of the four unit
\* vectors (0,-1), (1,0), (0,1), (-1,0).
C2_DirectionUnit == direction \in {<<0, -1>>, <<1, 0>>, <<0, 1>>, <<-1, 0>>}

\* C2: the mirror / of "1/" over "@>" has turned the IP from east to south.
C2_Witness ==
    /\ code = Str(<<"1", "/", "\n", "@", ">">>)
    /\ x = 1 /\ y = 1 /\ direction = <<0, 1>> /\ stack = <<>>

\* A handler that raises in normal mode: A or p given a value chr rejects,
\* W given a negative duration.
HandlerRaises ==
    \/ CurChar = C("A") /\ stack # <<>> /\ ~chr_ok(Top(stack))
    \/ CurChar = C("p") /\ Len(stack) >= 3 /\ ~chr_ok(stack[Len(stack) - 2])
    \/ CurChar = C("W") /\ stack # <<>> /\ Top(stack) < 0

\* C3: a step in normal mode whose handler raises is a silent no-op: it
\* reports continue (run goes on or returns true) and the IP advances one
\* cell in the current direction.
C3_FaultIsNoOp ==
    [][(NormalStep /\ HandlerRaises)
         => (run_state' \in {"running", "returned_true"} /\ Advances)]_vars

\* What get_information shows, but for input.
Snapshot ==
    <<get_output(Self), stack, addition_stack, call_stack, heap, x, y, direction,
      get_current_char(Self), ignore_mode, string_mode, input_pointer>>

\* C4: every step of a call run(n), n > 0, consumes one cell and counts as
\* one step, whatever the cell and the mode; the call returns false with the
\* step that reports halt, returns true with the n-th step if that one does
\* not, and goes on otherwise.
C4_RunContract ==
    [][(Stepping /\ run_steps > 0)
         => /\ run_i' = run_i + 1
            /\ \/ run_state' = "returned_false"
               \/ run_state' = "returned_true" /\ run_i' = run_steps
               \/ run_state' = "running" /\ run_i' < run_steps]_vars

\* The IP is on an @ in normal mode.
AtHalt == program # NoProgram /\ ~string_mode /\ ~ignore_mode /\ CurChar = C("@")

\* C5: a step on @ in normal mode reports halt (run returns false) and
\* changes nothing of the interpreter; a call of run (one that passes the
\* check of steps >= 0 at its entry) on the interpreter so halted changes
\* nothing either, so that it returns false again.
C5_HaltFreezes ==
    [][/\ (run_state = "running" /\ AtHalt)
            => (run_state' = "returned_false" /\ UNCHANGED <<Snapshot, program, input>>)
       /\ (run_state = "returned_false" /\ AtHalt /\ run_state' = "running")
            => UNCHANGED <<Snapshot, program, input>>]_vars

\* C5: run has returned false on an @ twice in a row, with output kept.
C5_Witness ==
    /\ run_state = "returned_false" /\ prev_state = "returned_false"
    /\ AtHalt /\ output # <<>> /\ x > 0

\* C6: a step in ignore mode on a cell that holds neither | nor _ (an
\* empty-sentinel cell included) leaves ignore mode set.
C6_IgnoreClearedOnlyByBars ==
    [][(Stepping /\ ~string_mode /\ ignore_mode /\ CurChar \notin {C("|"), C("_")})
         => ignore_mode']_vars

\* C7: a step in string mode never raises to the host: it reports continue
\* and the IP advances one cell, whatever the cell.
C7_StringStepTotal ==
    [][(Stepping /\ string_mode)
         => (run_state' \in {"running", "returned_true"} /\ Advances)]_vars

\* The snapshot of the initial state of the host's program: the interpreter
\* constructed, code loaded.
InitialSnapshot ==
    LET s == load_code(Interpreter_init(None, "None"), code).st
    IN <<get_output(s), s.stack, s.addition_stack, s.call_stack, s.heap, s.x, s.y,
         s.direction, get_current_char(s), s.ignore_mode, s.string_mode, s.input_pointer>>

\* Snapshot and InitialSnapshot without the current character (field 9).
NoCharacter(snap) == [i \in (1..12) \ {9} |-> snap[i]]

\* C8 as stated: reset, on a loaded program, leaves every field of the
\* snapshot but input equal to the initial snapshot.
C8_ResetRestoresSnapshot ==
    [][(Reset /\ program # NoProgram) => Snapshot' = InitialSnapshot]_vars

\* C8 amended: reset leaves output, stack, aux stack, call stack, heap,
\* position, direction, both modes and input_pointer equal to the initial
\* snapshot, and input, the callback binding and the grid as they were; the
\* current character is cell (0, 0) of the grid as it is now.
C8_ResetRestoresDynamicState ==
    [][(Reset /\ program # NoProgram)
         => /\ NoCharacter(Snapshot') = NoCharacter(InitialSnapshot)
            /\ UNCHANGED <<input, built_in_input, program>>
            /\ get_current_char(Self)' = get_item(program, 0, 0)]_vars

\* C8: reset has acted (everything empty, IP at the origin, after a run that
\* halted) on a grid whose cell (0, 0) p has rewritten.
C8_Witness ==
    /\ program # NoProgram /\ run_state = "returned_false"
    /\ x = 0 /\ y = 0 /\ stack = <<>> /\ output = <<>>
    /\ get_item(program, 0, 0) # get_item(GridMap_init(None, code).g, 0, 0)

\* C9: with a non-empty pre-supplied input of length n and input_pointer
\* set to 0, the k-th execution of I pushes the code point of the k-th
\* character and advances input_pointer to k when k <= n, pushes -1 and
\* leaves input_pointer when k > n, and never calls the host callback.
C9_PreSuppliedInput ==
    [][(NormalStep /\ CurChar = C("I") /\ Truthy(input) /\ i_base = 0)
         => LET k == i_count + 1
                n == Len(input)
            IN /\ k <= n => (stack' = Append(stack, input[k]) /\ input_pointer' = k)
               /\ k > n => (stack' = Append(stack, -1) /\ input_pointer' = input_pointer)
               /\ ~cb_called'
               /\ run_state' # "returned_false"]_vars

\* C9: I has run three times on the input "ab": a, b, then -1.
C9_Witness ==
    /\ input = Str(<<"a", "b">>) /\ i_base = 0 /\ i_count = 3
    /\ stack = <<97, 98, -1>> /\ input_pointer = 2

RECURSIVE Reverse(_)
\* s read backwards.
Reverse(s) == IF s = <<>> THEN <<>> ELSE Append(Reverse(Tail(s)), Head(s))

\* The step on the M of a round-trip program: the cells before it are 7, 0
\* (the sentinel), s between quotes, and the offsets 0, 0.
RoundTripPop ==
    NormalStep /\ CurChar = C("M") /\ x = Len(code) - 2 /\ y = 0

\* C10 as stated: s pushed in string mode above a 0 and popped by
\* _pop_string comes back as s, the 0 sentinel consumed.
C10_RoundTripIdentity ==
    [][RoundTripPop => (popped' = RTString(code) /\ stack' = <<7>>)]_vars

\* C10 amended: s pushed in string mode above a 0 and popped by
\* _pop_string comes back reversed (as s only when s is a palindrome), the
\* 0 sentinel consumed and what lay below it left.
C10_RoundTripReverses ==
    [][RoundTripPop => (popped' = Reverse(RTString(code)) /\ stack' = <<7>>)]_vars

\* C10: "ab|" was pushed and _pop_string has returned "|ba".
C10_Witness ==
    /\ code = RTProgram(Str(<<"a", "b", "|">>))
    /\ popped = Str(<<"|", "b", "a">>) /\ x = Len(code) - 1 /\ stack = <<7>>


\* The step on the g of PGProgram(val, px, py), reached with px, py on top of
\* the stack: p has run with val, px, py and only the two pushes lie between.
PutThenGet(val, px, py) ==
    /\ code = PGProgram(val, px, py)
    /\ NormalStep /\ CurChar = C("g") /\ x = Len(code) - 2 /\ y = 0
    /\ Len(stack) >= 2 /\ Second(stack) = px /\ Top(stack) = py

\* C11 as stated: for every value val and all integer coordinates (px, py),
\* g executed right after p wrote val at (px, py) pushes val.
C11_PutThenGetAnywhere ==
    [][\A val \in PGVals, px \in PGCoords, py \in PGCoords :
         PutThenGet(val, px, py) => stack' = Append(Pop2(stack), val)]_vars

\* C11 amended: for every code point val and all coordinates px, py >= 0, g
\* executed right after p wrote val at (px, py) pushes val; when px or py is
\* negative p writes nothing and g pushes 0.
C11_PutThenGetOnGrid ==
    [][\A val \in PGVals, px \in PGCoords, py \in PGCoords :
         PutThenGet(val, px, py)
           => /\ (chr_ok(val) /\ px >= 0 /\ py >= 0) => stack' = Append(Pop2(stack), val)
              /\ (px < 0 \/ py < 0) => stack' = Append(Pop2(stack), 0)]_vars

\* C11: p wrote H at (9, 1), past the last row of the program, and g has
\* pushed its code point.
C11_Witness ==
    /\ code = PGProgram(72, 9, 1)
    /\ x = Len(code) - 1 /\ y = 0 /\ stack = <<72>>
    /\ get_item(program, 9, 1) = C("H")


\* The stack the handler of char pops from holds fewer values than it asks.
Underfull(char) ==
    IF char = C("U") THEN Len(addition_stack) < Arity(char)
    ELSE Len(stack) < Arity(char)

\* C12: a step in normal mode on an opcode of ArityOps whose stack holds
\* fewer values than its arity leaves the main stack, the aux stack, the
\* heap, the grid, the output and the direction unchanged, does not fault
\* (run goes on or returns true) and advances the IP one cell.
C12_UnderfullIsNoOp ==
    [][(NormalStep /\ CurChar \in ArityOps /\ Underfull(CurChar))
         => /\ UNCHANGED <<stack, addition_stack, heap, program, output, direction>>
            /\ run_state' \in {"running", "returned_true"}
            /\ Advances]_vars

\* C12: p has been stepped over with two values on the stack: both are
\* still there, the grid is as loaded and the IP is on the next cell.
C12_Witness ==
    /\ code = Str(<<"1", "2", "p", "@">>) /\ x = 3 /\ y = 0 /\ stack = <<1, 2>>
    /\ program = GridMap_init(None, code).g /\ run_state = "running"


\* The program whose subroutine at (0, 1) turns south and calls, from
\* (0, 4), the subroutine at (1, 1), which turns east and returns.
NestedCalls ==
    Str(<<"0", "1", "F", "5", "N", "@", "\n", "V", ">", "R", "\n", "1", "\n", "1", "\n",
          "F", "\n", "R">>)

\* C13: F executed at (x, y) with two values or more pushes (x + dx, y + dy)
\* on the call stack and sets the IP to the popped (x, y) without advancing;
\* R on a non-empty call stack pops its last address and sets the IP exactly
\* there without advancing; no other step touches the call stack, so each R
\* returns to the address its F pushed whatever the subroutine did to the
\* direction, nested calls last in, first out.
C13_CallReturn ==
    [][/\ (NormalStep /\ CurChar = C("F") /\ Len(stack) >= 2)
            => /\ call_stack' = Append(call_stack, <<x + direction[1], y + direction[2]>>)
               /\ x' = Second(stack) /\ y' = Top(stack)
               /\ stack' = Pop2(stack)
               /\ run_state' # "returned_false"
       /\ (NormalStep /\ CurChar = C("R") /\ call_stack # <<>>)
            => /\ <<x', y'>> = Top(call_stack)
               /\ call_stack' = Pop1(call_stack)
               /\ run_state' # "returned_false"
       /\ (Stepping /\ ~(NormalStep /\ CurChar \in {C("F"), C("R")}))
            => UNCHANGED call_stack]_vars

\* C13: the inner R has returned to (0, 5), the cell south of the inner F,
\* heading east as the inner subroutine left it; the outer return address
\* (3, 0) is still on the call stack.
C13_Witness ==
    /\ code = NestedCalls
    /\ x = 0 /\ y = 5 /\ direction = <<1, 0>> /\ call_stack = <<<<3, 0>>>>
    /\ stack = <<>>


\* The arguments of the merge the next step makes: what M pops.
MergeFile == pop_string(Pop2(stack))
MergeX == Second(stack)
MergeY == Top(stack)

\* The next step is M in normal mode with its two offsets and a file name
\* that chr accepts on the stack.
MergeStep == NormalStep /\ CurChar = C("M") /\ Len(stack) >= 2 /\ MergeFile.ok

\* C14: a merge that succeeds, whatever the sign of its offsets, leaves in
\* every cell (cx, cy) of the grid the overlay's character when
\* (cx - xoff, cy - yoff) is a non-empty cell of the overlay, and what the
\* cell held before otherwise.
C14_MergeWritesExactly ==
    [][(MergeStep /\ merge_grid(program, MergeFile.chars, MergeX, MergeY).ok)
         => LET other == GridMap_init(MergeFile.chars, None).g
            IN \A cx \in 0..MaxDim, cy \in 0..MaxDim :
                 get_item(program', cx, cy) =
                     IF get_item(other, cx - MergeX, cy - MergeY) # EMPTY
                     THEN get_item(other, cx - MergeX, cy - MergeY)
                     ELSE get_item(program, cx, cy)]_vars


\* os.path.exists finds the file named.
Resolves(file) == Truthy(file) /\ file \in DOMAIN FileSystem

\* C15: when the file M names cannot be resolved, merge returns false and
\* raises nothing, the grid keeps its content and its dimensions, and the
\* step of M, with its arguments popped, reports continue and advances the
\* IP one cell.
C15_MissingFileIsNoOp ==
    [][(MergeStep /\ ~Resolves(MergeFile.chars))
         => /\ ~merge_grid(program, MergeFile.chars, MergeX, MergeY).ok
            /\ program' = program
            /\ stack' = MergeFile.stack
            /\ run_state' \in {"running", "returned_true"}
            /\ Advances]_vars

\* C15: M has named the file "ba", which does not exist: the grid is as
\* loaded, the run goes on and the IP is on the cell after M.
C15_Witness ==
    /\ code = RTProgram(Str(<<"a", "b">>))
    /\ popped = Str(<<"b", "a">>) /\ ~Resolves(popped)
    /\ x = Len(code) - 1 /\ y = 0 /\ stack = <<7>>
    /\ program = GridMap_init(None, code).g /\ run_state = "running"


\* Every row of g has g.cols cells and g.rows is the number of its rows.
Rectangular(g) ==
    /\ g.rows = Len(g.map)
    /\ \A r \in 1..Len(g.map) : Len(g.map[r]) = g.cols

\* C16: the grid is rectangular when load_code has constructed it and after
\* every step (p and M are the steps that write it), and no step makes rows
\* or cols smaller.
C16_GridRectangular ==
    [][/\ program' # NoProgram => Rectangular(program')
       /\ Stepping => (program'.rows >= program.rows /\ program'.cols >= program.cols)]_vars

\* C16: p has written at (9, 1) of the 1 x 5 program 591p@, which has grown
\* to 2 x 10.
C16_Witness ==
    /\ code = Str(<<"5", "9", "1", "p", "@">>)
    /\ program.rows = 2 /\ program.cols = 10
    /\ get_item(program, 9, 1) = 5 /\ get_item(program, 9, 0) = EMPTY


\* The IP is at negative coordinates or past the last row or column.
Outside == x < 0 \/ y < 0 \/ x >= program.cols \/ y >= program.rows

\* C17: get returns the empty sentinel for every position outside the grid;
\* a step in normal mode on an empty-sentinel cell moves the IP one cell in
\* the current direction and changes nothing else, does not fault and does
\* not halt (run goes on or returns true).
C17_EmptyCellOnlyMoves ==
    [][/\ (Stepping /\ Outside) => CurChar = EMPTY
       /\ (NormalStep /\ (CurChar = EMPTY \/ Outside))
            => /\ Advances
               /\ run_state' \in {"running", "returned_true"}
               /\ UNCHANGED <<program, stack, addition_stack, output, call_stack, heap,
                              direction, ignore_mode, string_mode, input, input_pointer,
                              built_in_input>>]_vars

\* C17: the IP has left the grid through its top in normal mode and the run
\* has gone on for a second step outside.
C17_Witness ==
    /\ program # NoProgram /\ ~string_mode /\ ~ignore_mode
    /\ y = -2 /\ direction = <<0, -1>> /\ run_state = "running"


\* The one-row program 42 7 h 7 H N @.
HeapRoundTrip ==
    Str(<<"4", "2", " ", "7", " ", "h", " ", "7", " ", "H", " ", "N", " ", "@">>)

\* The step with which a run of the program text halts.
HaltsOn(text) == code = text /\ Stepping /\ run_state' = "returned_false"

\* C18 as stated: the program 42 7 h 7 H N @ halts at its @ with heap[7] = 42
\* and the output 42.
C18_HeapRoundTrip42 ==
    [][HaltsOn(HeapRoundTrip)
         => /\ x' = 13 /\ y' = 0 /\ CurChar = C("@")
            /\ heap' = (7 :> 42)
            /\ Join(output') = Str(<<"4", "2">>)]_vars

\* C18 amended: each digit cell pushes its own value, so the program
\* 42 7 h 7 H N @ pushes 4, 2 and 7, stores heap[7] = 2, and halts at its @
\* with the output 2 and the 4 left on the stack.
C18_HeapRoundTrip2 ==
    [][HaltsOn(HeapRoundTrip)
         => /\ x' = 13 /\ y' = 0 /\ CurChar = C("@")
            /\ heap' = (7 :> 2)
            /\ Join(output') = Str(<<"2">>)
            /\ stack' = <<4>>]_vars

\* C18: the program has halted at its @ having printed 2.
C18_Witness ==
    /\ code = HeapRoundTrip /\ run_state = "returned_false"
    /\ x = 13 /\ y = 0 /\ get_output(Self) = Str(<<"2">>) /\ heap = (7 :> 2)

\* The one-row program |5N|@.
Bridge == Str(<<"|", "5", "N", "|", "@">>)

\* C19 as stated: the program |5N|@ halts with the output 5.
C19_BridgeOutput5 ==
    [][HaltsOn(Bridge)
         => (x' = 4 /\ y' = 0 /\ Join(output') = Str(<<"5">>))]_vars

\* C19 amended: the first | puts the eastbound IP in ignore mode, 5 and N
\* are skipped, the second | clears the mode, and the program |5N|@ halts
\* at its @ with empty output and an empty stack.
C19_BridgeOutputEmpty ==
    [][HaltsOn(Bridge)
         => (x' = 4 /\ y' = 0 /\ Join(output') = <<>> /\ stack' = <<>>)]_vars

\* C19: the program has halted at its @, the bridge crossed, nothing printed.
C19_Witness ==
    /\ code = Bridge /\ run_state = "returned_false"
    /\ x = 4 /\ y = 0 /\ ~ignore_mode /\ get_output(Self) = <<>> /\ stack = <<>>


\* C20: load_code of any text, the empty text included, constructs a grid
\* whose rows are the lines of the text, whose cols is the length of the
\* longest line (0 when there are no lines), and whose shorter rows are
\* padded with the empty sentinel.
C20_AnyTextConstructs ==
    [][LoadCode
         => LET lines == splitlines(code)
            IN /\ load_state' = "loaded"
               /\ program'.rows = Len(lines)
               /\ program'.cols = MaxRowLen(lines)
               /\ \A r \in 1..Len(lines), c \in 1..MaxRowLen(lines) :
                    get_item(program', c - 1, r - 1) =
                        IF c <= Len(lines[r]) THEN lines[r][c] ELSE EMPTY]_vars


\* C21: h with the address on top and the value below stores
\* heap[address] = value, removes both from the stack and leaves every other
\* entry of the heap; H pushes, in place of the address, the value stored
\* there, or 0 for an address never stored, and leaves the heap as it is;
\* so the H of a heap program pushes what the last h at its address stored.
C21_HeapStoreLoad ==
    [][/\ (NormalStep /\ CurChar = C("h") /\ Len(stack) >= 2)
            => /\ stack' = Pop2(stack)
               /\ DOMAIN heap' = DOMAIN heap \cup {Top(stack)}
               /\ heap'[Top(stack)] = Second(stack)
               /\ \A a \in DOMAIN heap \ {Top(stack)} : heap'[a] = heap[a]
       /\ (NormalStep /\ CurChar = C("H") /\ stack # <<>>)
            => /\ heap' = heap
               /\ stack' = Append(Pop1(stack),
                                  IF Top(stack) \in DOMAIN heap THEN heap[Top(stack)] ELSE 0)
       /\ (NormalStep /\ CurChar = C("H"))
            => \A v1 \in HeapVals, a1 \in HeapAddrs, v2 \in HeapVals, a2 \in HeapAddrs,
                  a3 \in HeapAddrs :
                 code = HeapProgram(v1, a1, v2, a2, a3)
                   => stack' = <<IF a3 = a2 THEN v2 ELSE IF a3 = a1 THEN v1 ELSE 0>>]_vars

\* C21: 5 was stored at 3 and 0 at 7, and H has loaded the 5 from 3; the
\* other entry is as stored.
C21_Witness ==
    /\ code = HeapProgram(5, 3, 0, 7, 3)
    /\ x = Len(code) - 1 /\ stack = <<5>>
    /\ DOMAIN heap = {3, 7} /\ heap[3] = 5 /\ heap[7] = 0


\* North, east, south, west: each is the right turn of the one before it,
\* north of west.
Compass == <<<<0, -1>>, <<1, 0>>, <<0, 1>>, <<-1, 0>>>>

\* The right turn and the left turn of the direction d, read off Compass.
RightOf(d) == LET i == CHOOSE k \in 1..4 : Compass[k] = d IN Compass[(i % 4) + 1]
LeftOf(d) == LET i == CHOOSE k \in 1..4 : Compass[k] = d IN Compass[((i + 2) % 4) + 1]

\* C22: / and \ each pop one value; / turns left when it is 0 and right
\* otherwise, \ turns right when it is 0 and left otherwise, the right turn
\* going north, east, south, west, north and the left turn the other way
\* round; on an empty stack neither changes the direction or the stack.
C22_Mirrors ==
    [][/\ (NormalStep /\ CurChar = C("/") /\ stack # <<>>)
            => /\ stack' = Pop1(stack)
               /\ direction' = IF Top(stack) = 0 THEN LeftOf(direction)
                               ELSE RightOf(direction)
       /\ (NormalStep /\ CurChar = C("\\") /\ stack # <<>>)
            => /\ stack' = Pop1(stack)
               /\ direction' = IF Top(stack) = 0 THEN RightOf(direction)
                               ELSE LeftOf(direction)
       /\ (NormalStep /\ CurChar \in {C("/"), C("\\")} /\ stack = <<>>)
            => (UNCHANGED <<stack, direction>> /\ Advances)]_vars

\* C22: heading west with a 0 on the stack, the \ at (1, 3) has turned the
\* IP north (the right turn of west) and taken the 0.
C22_Witness ==
    /\ code = MirrorProgram(C("0"), C("\\"))
    /\ x = 1 /\ y = 2 /\ direction = <<0, -1>> /\ stack = <<>>


\* The floor of a divided by b, b # 0: the integer q with q <= a / b < q + 1.
FloorOf(a, b) ==
    CHOOSE q \in (-Abs(a) - 1)..(Abs(a) + 1) :
        IF b > 0 THEN q * b <= a /\ a < (q + 1) * b
        ELSE q * b >= a /\ a > (q + 1) * b

\* The step on the opcode op of an arithmetic program, a and b pushed.
Operates(op) == NormalStep /\ CurChar = op /\ Len(stack) >= 2

\* C23: with a pushed before b, - replaces the two by a - b, : by the floor
\* of a / b and % by a - b * floor(a / b) (which has the sign of b); for
\* b = 0 both : and % push 0; no step faults.
C23_SubDivMod ==
    [][LET a == Second(stack)
           b == Top(stack)
       IN /\ Operates(C("-")) => stack' = Append(Pop2(stack), a - b)
          /\ Operates(C(":"))
               => stack' = Append(Pop2(stack), IF b = 0 THEN 0 ELSE FloorOf(a, b))
          /\ Operates(C("%"))
               => LET r == IF b = 0 THEN 0 ELSE a - b * FloorOf(a, b)
                  IN /\ stack' = Append(Pop2(stack), r)
                     /\ b > 0 => (0 <= r /\ r < b)
                     /\ b < 0 => (b < r /\ r <= 0)
          /\ (Operates(C("-")) \/ Operates(C(":")) \/ Operates(C("%")))
               => (run_state' \in {"running", "returned_true"} /\ Advances)]_vars

\* C23: -7 : 2 has pushed -4, the floor of -3.5.
C23_Witness ==
    /\ code = ArithProgram(-7, 2, C(":"))
    /\ x = Len(code) - 1 /\ stack = <<-4>> /\ run_state = "running"


\* C24: after set_input(""), on an interpreter constructed with a callback,
\* a step on I in normal mode calls the callback and pushes the code point
\* of the first character of a non-empty string, or the integer, or nothing
\* for an empty string; the step reports continue and the IP advances.
C24_EmptyInputUsesCallback ==
    [][(NormalStep /\ CurChar = C("I") /\ input = <<>>)
         => /\ cb_called'
            /\ \/ stack' = stack
               \/ \E val \in CallbackResults :
                    \/ val.kind = "str" /\ val.text # <<>>
                         /\ stack' = Append(stack, val.text[1])
                    \/ val.kind = "int" /\ stack' = Append(stack, val.num)
            /\ run_state' \in {"running", "returned_true"}
            /\ Advances]_vars


\* C25: while ignore mode is set, a step changes nothing except the IP,
\* which advances one cell, and possibly the ignore flag: stack, aux stack,
\* heap, grid, output, call stack, direction, string mode and the input are
\* unchanged whatever the cell contains, and the step reports continue.
C25_IgnoreFrame ==
    [][(Stepping /\ ignore_mode)
         => /\ Advances
            /\ run_state' \in {"running", "returned_true"}
            /\ UNCHANGED <<program, stack, addition_stack, heap, output,
                           call_stack, direction, string_mode, input,
                           input_pointer, built_in_input, cb_called>>]_vars

\* C25: a run in ignore mode has just stepped over an @ and goes on.
C25_Witness ==
    /\ ignore_mode /\ ~string_mode
    /\ run_state = "running"
    /\ program # NoProgram
    /\ get_item(program, x - direction[1], y - direction[2]) = C("@")


\* C26: j and F executed with fewer than two stack values, and R executed
\* with an empty call stack, take no jump and change neither the stack nor
\* the call stack; the step is an ordinary no-op: it reports continue and the
\* IP advances one cell in the current direction.
C26_UnderfullJumps ==
    [][(/\ NormalStep
        /\ \/ CurChar \in {C("j"), C("F")} /\ Len(stack) < 2
           \/ CurChar = C("R") /\ call_stack = <<>>)
         => /\ Advances
            /\ run_state' \in {"running", "returned_true"}
            /\ UNCHANGED <<program, stack, addition_stack, heap, output, call_stack,
                           direction, string_mode, ignore_mode, input,
                           input_pointer>>]_vars

\* C26: heading south, F was met with one value on the stack and the run
\* went on to the cell under it.
C26_Witness ==
    /\ code = UnderProgram(Str(<<"1">>), C("F"), TRUE)
    /\ run_state = "running"
    /\ x = 0 /\ y = 3
    /\ direction = <<0, 1>>
    /\ stack = <<1>>
    /\ call_stack = <<>>


\* The cell (cx, cy) lies on the grid g.
OnGrid(g, cx, cy) == 0 <= cy /\ cy < Len(g.map) /\ 0 <= cx /\ cx < Len(g.map[cy + 1])

\* What set(px, py, ch) is said to make of the grid g: h is g with ch at
\* (px, py), at least px + 1 columns by py + 1 rows and no smaller than g,
\* rectangular, every other cell of g as it was and every new cell empty;
\* h is g when px or py is negative.
SetResult(g, h, px, py, ch) ==
    IF px < 0 \/ py < 0 THEN h = g
    ELSE /\ get_item(h, px, py) = ch
         /\ h.cols >= px + 1 /\ h.cols >= g.cols
         /\ h.rows >= py + 1 /\ h.rows >= g.rows
         /\ Len(h.map) = h.rows
         /\ \A r \in 1..Len(h.map) : Len(h.map[r]) = h.cols
         /\ \A cy \in 0..(h.rows - 1), cx \in 0..(h.cols - 1) :
              <<cx, cy>> # <<px, py>>
                => h.map[cy + 1][cx + 1] = IF OnGrid(g, cx, cy) THEN g.map[cy + 1][cx + 1]
                                           ELSE EMPTY

\* C27: set(x, y, ch) with x >= 0 and y >= 0 makes get(x, y) return ch,
\* grows the grid to at least x + 1 columns by y + 1 rows with the new cells
\* empty, and leaves every other existing cell unchanged; with x < 0 or
\* y < 0 it leaves content and dimensions unchanged.  Checked on every p
\* that reaches set: the character and the coordinates are those it popped.
C27_SetItem ==
    [][(/\ NormalStep /\ CurChar = C("p")
        /\ Len(stack) >= 3
        /\ chr_ok(stack[Len(stack) - 2]))
         => SetResult(program, program', Second(stack), Top(stack),
                      chr(stack[Len(stack) - 2]))]_vars

\* C27: p has written chr(5) at (9, 9) of a program of one row of eight
\* cells, which is now ten by ten.
C27_Witness ==
    /\ code = PGProgram(5, 9, 9)
    /\ run_state = "running"
    /\ x = 4 /\ y = 0 /\ stack = <<>>
    /\ program.rows = 10 /\ program.cols = 10
    /\ get_item(program, 9, 9) = chr(5)
    /\ get_item(program, 3, 0) = C("p")
    /\ get_item(program, 8, 9) = EMPTY


\* C28: in the debugger Run resets, loads the editor's content and starts
\* the timer; every tick of the timer executes exactly one step (run(1))
\* and then reads a snapshot of the interpreter as the step left it; a tick
\* whose step reports halt stops the timer, and a stopped timer executes no
\* step.
C28_TimerDrivesSteps ==
    [][/\ window'.slot = "run"
            => /\ window'.timer = "active"
               /\ Self' = load_code(reset(Self), code).st
       /\ window'.slot = "timeout"
            => /\ window.timer = "active"
               /\ run_state' \in {"returned_true", "returned_false"}
               /\ window'.shown
               /\ window'.view = <<get_information(Self')>>
               /\ run_state' = "returned_false" => window'.timer = "stopped"
               /\ run_state' = "returned_true" => window'.timer = "active"]_vars

====
